---------------------------- MODULE Spec2Model ----------------------------
(***************************************************************************)
(* Model of the content-category classifier and the tokenization allocator *)
(* of the IP tokenization backend (src/routes/tokenization_categories.py   *)
(* and src/routes/specialized_tokenization.py), and of the earlier         *)
(* tokenizer generate_tokenization_elements (src/routes/tokenization.py).  *)
(*                                                                         *)
(* Number representation.  The code computes in binary floating point;     *)
(* the model computes in exact fixed point:                                *)
(*   - classifier scores and confidences are in thousandths (0.4 = 400);   *)
(*   - originality_score is in tenths of a point (90.0 = 900), the         *)
(*     granularity at which the analysis routes produce it;                *)
(*   - quality factors and value multipliers are in thousandths;           *)
(*   - money is in cents once rounded, and in 10^-6 dollars before.        *)
(* round(x, 2) is round-to-nearest; where the exact value lies half way    *)
(* between two cents the float the code rounds may sit on either side, so  *)
(* both neighbours are possible outcomes.  Which outcome it is does not    *)
(* change from call to call: floating-point arithmetic is a function of    *)
(* its operands.  The variable `arithmetic` holds how the running          *)
(* interpreter settles the cases the fixed-point model leaves open.        *)
(***************************************************************************)
EXTENDS Integers, Sequences, FiniteSets, TLC

VARIABLES
  detection,     \* the last enhanced_auto_detect_category call and its result
  tokenization,  \* the last create_specialized_tokenization call and its result
  elements,      \* the last generate_tokenization_elements call and its result
  arithmetic,    \* how float arithmetic settles what the decimal model leaves open
  calls,         \* per request thread: the call it made and what it got back
  frames,        \* the activation records of the calls in progress
  lookup,        \* the last get_category_by_file_extension or
                 \* validate_category_selection call and its result
  flow,          \* the /api/v1.1/tokenization/tokenize request being served
  users,         \* committed rows of the table users
  email_verifications,  \* committed rows of the table email_verifications
  clock,         \* datetime.now(), in hours
  requests       \* per request thread: the registration request it serves

vars == <<detection, tokenization, elements, arithmetic, calls, frames, lookup,
          flow, users, email_verifications, clock, requests>>

\* the two harnesses: one caller issuing one call at a time, and request
\* threads whose calls overlap
sequential == <<detection, tokenization, elements>>

threaded == <<calls, frames>>

\* the tokenize route and the registration routes with their database
tokenize_route == <<flow>>

registration == <<users, email_verifications, clock, requests>>

services == <<tokenize_route, registration>>

Min(a, b) == IF a < b THEN a ELSE b

Range(s) == {s[i] : i \in 1..Len(s)}

\* Python's `x in list`
InList(x, list) == \E i \in 1..Len(list) : list[i] = x

(***************************************************************************)
(* Static tables                                                           *)
(***************************************************************************)
CONTENT_CATEGORIES ==
  <<
    [id |-> "film",
     file_types |-> <<"mp4", "mov", "avi", "mkv", "wmv">>,
     tokenization_structure |->
       <<
          [name |-> "cinematography_rights", percentage |-> 25, base_value |-> 60],
          [name |-> "audio_soundtrack_rights", percentage |-> 20, base_value |-> 45],
          [name |-> "narrative_story_rights", percentage |-> 20, base_value |-> 50],
          [name |-> "character_performance_rights", percentage |-> 15, base_value |-> 40],
          [name |-> "production_design_rights", percentage |-> 10, base_value |-> 35],
          [name |-> "distribution_licensing_rights", percentage |-> 10, base_value |-> 30]
       >>],
    [id |-> "animation",
     file_types |-> <<"mp4", "mov", "gif", "webm">>,
     tokenization_structure |->
       <<
          [name |-> "animation_artistry_rights", percentage |-> 30, base_value |-> 55],
          [name |-> "character_design_rights", percentage |-> 25, base_value |-> 50],
          [name |-> "story_concept_rights", percentage |-> 20, base_value |-> 45],
          [name |-> "audio_design_rights", percentage |-> 15, base_value |-> 35],
          [name |-> "technical_innovation_rights", percentage |-> 10, base_value |-> 40]
       >>],
    [id |-> "screenplay",
     file_types |-> <<"pdf", "txt", "doc", "docx", "rtf">>,
     tokenization_structure |->
       <<
          [name |-> "dialogue_rights", percentage |-> 30, base_value |-> 45],
          [name |-> "plot_structure_rights", percentage |-> 25, base_value |-> 50],
          [name |-> "character_development_rights", percentage |-> 20, base_value |-> 40],
          [name |-> "scene_description_rights", percentage |-> 15, base_value |-> 35],
          [name |-> "adaptation_rights", percentage |-> 10, base_value |-> 55]
       >>],
    [id |-> "book_writing",
     file_types |-> <<"pdf", "txt", "doc", "docx", "epub">>,
     tokenization_structure |->
       <<
          [name |-> "narrative_prose_rights", percentage |-> 35, base_value |-> 50],
          [name |-> "plot_concept_rights", percentage |-> 25, base_value |-> 45],
          [name |-> "character_creation_rights", percentage |-> 20, base_value |-> 40],
          [name |-> "world_building_rights", percentage |-> 10, base_value |-> 35],
          [name |-> "publishing_adaptation_rights", percentage |-> 10, base_value |-> 60]
       >>],
    [id |-> "digital_art",
     file_types |-> <<"jpg", "jpeg", "png", "gif", "bmp", "tiff", "webp">>,
     tokenization_structure |->
       <<
          [name |-> "artistic_composition_rights", percentage |-> 40, base_value |-> 55],
          [name |-> "concept_originality_rights", percentage |-> 25, base_value |-> 50],
          [name |-> "technical_execution_rights", percentage |-> 20, base_value |-> 45],
          [name |-> "commercial_usage_rights", percentage |-> 15, base_value |-> 65]
       >>],
    [id |-> "photography",
     file_types |-> <<"jpg", "jpeg", "png", "raw", "tiff">>,
     tokenization_structure |->
       <<
          [name |-> "photographic_composition_rights", percentage |-> 35, base_value |-> 50],
          [name |-> "subject_capture_rights", percentage |-> 25, base_value |-> 45],
          [name |-> "technical_photography_rights", percentage |-> 20, base_value |-> 40],
          [name |-> "post_processing_rights", percentage |-> 10, base_value |-> 35],
          [name |-> "commercial_licensing_rights", percentage |-> 10, base_value |-> 70]
       >>],
    [id |-> "music_composition",
     file_types |-> <<"mp3", "wav", "aac", "flac", "ogg", "m4a">>,
     tokenization_structure |->
       <<
          [name |-> "melody_composition_rights", percentage |-> 30, base_value |-> 55],
          [name |-> "lyrical_content_rights", percentage |-> 25, base_value |-> 45],
          [name |-> "arrangement_production_rights", percentage |-> 20, base_value |-> 50],
          [name |-> "performance_rights", percentage |-> 15, base_value |-> 60],
          [name |-> "synchronization_rights", percentage |-> 10, base_value |-> 75]
       >>],
    [id |-> "podcast_audio",
     file_types |-> <<"mp3", "wav", "aac", "m4a">>,
     tokenization_structure |->
       <<
          [name |-> "content_creation_rights", percentage |-> 35, base_value |-> 40],
          [name |-> "host_personality_rights", percentage |-> 25, base_value |-> 35],
          [name |-> "production_quality_rights", percentage |-> 20, base_value |-> 30],
          [name |-> "format_concept_rights", percentage |-> 10, base_value |-> 45],
          [name |-> "distribution_syndication_rights", percentage |-> 10, base_value |-> 50]
       >>],
    [id |-> "software_code",
     file_types |-> <<"py", "js", "html", "css", "java", "cpp", "zip">>,
     tokenization_structure |->
       <<
          [name |-> "algorithm_logic_rights", percentage |-> 35, base_value |-> 60],
          [name |-> "user_interface_rights", percentage |-> 25, base_value |-> 45],
          [name |-> "architecture_design_rights", percentage |-> 20, base_value |-> 55],
          [name |-> "innovation_patent_rights", percentage |-> 10, base_value |-> 80],
          [name |-> "commercial_licensing_rights", percentage |-> 10, base_value |-> 70]
       >>],
    [id |-> "video_games",
     file_types |-> <<"exe", "apk", "ipa", "unity", "unreal", "zip", "rar", "mp4", "mov">>,
     tokenization_structure |->
       <<
          [name |-> "visual_art_assets_rights", percentage |-> 25, base_value |-> 55],
          [name |-> "audio_music_rights", percentage |-> 15, base_value |-> 50],
          [name |-> "sound_effects_rights", percentage |-> 10, base_value |-> 40],
          [name |-> "narrative_story_rights", percentage |-> 15, base_value |-> 45],
          [name |-> "gameplay_mechanics_rights", percentage |-> 20, base_value |-> 60],
          [name |-> "code_programming_rights", percentage |-> 10, base_value |-> 65],
          [name |-> "distribution_licensing_rights", percentage |-> 5, base_value |-> 75]
       >>]
  >>

keyword_patterns ==
  <<
    [id |-> "film",
     keywords |-> <<"movie", "film", "cinema", "documentary", "feature", "short film", "trailer", "scene">>,
     file_types |-> <<"mp4", "mov", "avi", "mkv", "wmv", "m4v", "flv">>,
     confidence_boost |-> 150],
    [id |-> "screenplay",
     keywords |-> <<"screenplay", "script", "dialogue", "scene", "act", "fade in", "fade out", "treatment">>,
     file_types |-> <<"pdf", "txt", "doc", "docx", "rtf", "fountain">>,
     confidence_boost |-> 200],
    [id |-> "music",
     keywords |-> <<"song", "music", "track", "album", "beat", "melody", "audio", "sound">>,
     file_types |-> <<"mp3", "wav", "flac", "aac", "m4a", "ogg">>,
     confidence_boost |-> 180],
    [id |-> "book_writing",
     keywords |-> <<"book", "novel", "chapter", "story", "manuscript", "literature", "writing", "text">>,
     file_types |-> <<"pdf", "txt", "doc", "docx", "epub", "rtf">>,
     confidence_boost |-> 160],
    [id |-> "digital_art",
     keywords |-> <<"art", "design", "illustration", "graphic", "visual", "artwork", "drawing", "painting">>,
     file_types |-> <<"jpg", "jpeg", "png", "gif", "bmp", "svg", "psd", "ai">>,
     confidence_boost |-> 140],
    [id |-> "photography",
     keywords |-> <<"photo", "photograph", "image", "picture", "shot", "portrait", "landscape">>,
     file_types |-> <<"jpg", "jpeg", "png", "raw", "tiff", "cr2", "nef">>,
     confidence_boost |-> 170],
    [id |-> "animation",
     keywords |-> <<"animation", "animated", "cartoon", "motion", "frame", "tween", "3d", "2d">>,
     file_types |-> <<"mp4", "mov", "gif", "avi", "mkv", "swf">>,
     confidence_boost |-> 190],
    [id |-> "gaming",
     keywords |-> <<"game", "gaming", "level", "character", "gameplay", "interactive", "unity", "unreal">>,
     file_types |-> <<"exe", "apk", "ipa", "unity", "unreal", "zip">>,
     confidence_boost |-> 130],
    [id |-> "software",
     keywords |-> <<"app", "software", "program", "code", "application", "tool", "utility">>,
     file_types |-> <<"exe", "dmg", "apk", "ipa", "zip", "tar", "gz">>,
     confidence_boost |-> 120]
  >>
(***************************************************************************)
(* String operations (str.lower, str.lstrip, str.strip, substring test)    *)
(***************************************************************************)
UpperChars == "ABCDEFGHIJKLMNOPQRSTUVWXYZ"

LowerChars == "abcdefghijklmnopqrstuvwxyz"

CharAt(s, i) == SubSeq(s, i, i)

LowerChar(c) ==
  IF \E i \in 1..Len(UpperChars) : CharAt(UpperChars, i) = c
    THEN CharAt(LowerChars, CHOOSE i \in 1..Len(UpperChars) : CharAt(UpperChars, i) = c)
    ELSE c

RECURSIVE Lower(_)
Lower(s) == IF s = "" THEN "" ELSE LowerChar(CharAt(s, 1)) \o Lower(Tail(s))

RECURSIVE LStrip(_, _)
LStrip(s, c) ==
  IF s # "" /\ CharAt(s, 1) = c THEN LStrip(Tail(s), c) ELSE s

RECURSIVE RStrip(_, _)
RStrip(s, c) ==
  IF s # "" /\ CharAt(s, Len(s)) = c THEN RStrip(SubSeq(s, 1, Len(s) - 1), c) ELSE s

Strip(s) == RStrip(LStrip(s, " "), " ")

\* Python's `keyword in text` for strings
Contains(keyword, text) ==
  \E i \in 1..(Len(text) - Len(keyword) + 1) :
     SubSeq(text, i, i + Len(keyword) - 1) = keyword

\* faulty variant: only one leading dot is removed
NormalizeExtensionOneDot(file_extension) ==
  IF Lower(file_extension) # "" /\ CharAt(Lower(file_extension), 1) = "."
    THEN Tail(Lower(file_extension))
    ELSE Lower(file_extension)

\* file_extension.lower().lstrip('.')
NormalizeExtension(file_extension) == LStrip(Lower(file_extension), ".")

(***************************************************************************)
(* Category classifier                                                     *)
(***************************************************************************)
DefaultCategory == "digital_art"

\* faulty variant: falls back to the first category of the table
get_category_by_file_extension_FirstAsDefault(file_extension) ==
  LET file_ext == NormalizeExtension(file_extension)
      hits == {i \in 1..Len(CONTENT_CATEGORIES) :
                 InList(file_ext, CONTENT_CATEGORIES[i].file_types)}
  IN IF hits # {}
       THEN CONTENT_CATEGORIES[CHOOSE i \in hits : \A j \in hits : i <= j].id
       ELSE CONTENT_CATEGORIES[1].id

\* faulty variant: the last category listing the extension is returned
get_category_by_file_extension_LastListing(file_extension) ==
  LET file_ext == NormalizeExtension(file_extension)
      hits == {i \in 1..Len(CONTENT_CATEGORIES) :
                 InList(file_ext, CONTENT_CATEGORIES[i].file_types)}
  IN IF hits # {}
       THEN CONTENT_CATEGORIES[CHOOSE i \in hits : \A j \in hits : j <= i].id
       ELSE DefaultCategory

\* faulty variant: the table is not searched
get_category_by_file_extension_AlwaysDefault(file_extension) == DefaultCategory

get_category_by_file_extension(file_extension) ==
  LET file_ext == NormalizeExtension(file_extension)
      hits == {i \in 1..Len(CONTENT_CATEGORIES) :
                 InList(file_ext, CONTENT_CATEGORIES[i].file_types)}
  IN IF hits # {}
       THEN CONTENT_CATEGORIES[CHOOSE i \in hits : \A j \in hits : i <= j].id
       ELSE DefaultCategory

TextToAnalyze(filename, content_title) ==
  Strip(Lower(filename) \o " " \o Lower(content_title))

ExtensionBaseScore == 400

ExtensionScore(file_ext, pattern_data) ==
  IF InList(file_ext, pattern_data.file_types) THEN ExtensionBaseScore ELSE 0

\* faulty variant: every keyword weighs 0.1, whatever its length
KeywordWeightFlat(keyword) == 100

\* faulty variant: every contradiction is taken as mild
ContradictionPenaltyMildOnly(score, file_ext, pattern_data, keyword_matches) ==
  IF keyword_matches > 0 /\ ~InList(file_ext, pattern_data.file_types)
    THEN (score * 7) \div 10
    ELSE score

MatchedKeywords(pattern_data, text_to_analyze) ==
  SelectSeq(pattern_data.keywords, LAMBDA kw : Contains(kw, text_to_analyze))

KeywordWeight(keyword) == 100 + Len(keyword) * 10

RECURSIVE SumKeywordWeights(_)
SumKeywordWeights(kws) ==
  IF kws = <<>> THEN 0 ELSE KeywordWeight(Head(kws)) + SumKeywordWeights(Tail(kws))

DensityBoost(pattern_data, keyword_matches) ==
  IF keyword_matches > 0
    THEN pattern_data.confidence_boost + Min(keyword_matches * 50, 200)
    ELSE 0

video_types == <<"mp4", "mov", "avi", "mkv", "wmv">>

text_types == <<"pdf", "txt", "doc", "docx">>

audio_types == <<"mp3", "wav", "flac", "aac">>

StronglyContradicts(file_ext, category_id) ==
  \/ InList(file_ext, video_types) /\ category_id \in {"screenplay", "book_writing"}
  \/ InList(file_ext, text_types) /\ category_id \in {"film", "music", "animation"}
  \/ InList(file_ext, audio_types) /\ category_id \in {"film", "digital_art", "photography"}

\* score is a multiple of 10 here, so the products are exact
ContradictionPenalty(score, file_ext, pattern_data, keyword_matches) ==
  IF keyword_matches > 0 /\ ~InList(file_ext, pattern_data.file_types)
    THEN IF StronglyContradicts(file_ext, pattern_data.id)
           THEN (score * 3) \div 10
           ELSE (score * 7) \div 10
    ELSE score

ScoreCap == 1000

\* the score of one pattern before min(score, 1.0)
RawScore(pattern_data, file_ext, text_to_analyze) ==
  LET matched == MatchedKeywords(pattern_data, text_to_analyze)
      keyword_matches == Len(matched)
      raw == ExtensionScore(file_ext, pattern_data)
               + SumKeywordWeights(matched)
               + DensityBoost(pattern_data, keyword_matches)
  IN ContradictionPenalty(raw, file_ext, pattern_data, keyword_matches)

CategoryScore(pattern_data, file_ext, text_to_analyze) ==
  Min(RawScore(pattern_data, file_ext, text_to_analyze), ScoreCap)

\* Whether the float the code holds for this score may differ in its last bits
\* from the float of the exact decimal: it is a sum of several float terms
\* (0.0, 0.0 + 0.4 and the cap 1.0 are exact).
Inexact(pattern_data, file_ext, text_to_analyze) ==
  /\ MatchedKeywords(pattern_data, text_to_analyze) # <<>>
  /\ RawScore(pattern_data, file_ext, text_to_analyze) <= ScoreCap

\* the dict category_scores, in insertion order
CategoryScores(file_ext, text_to_analyze) ==
  [i \in 1..Len(keyword_patterns) |->
     [id |-> keyword_patterns[i].id,
      score |-> CategoryScore(keyword_patterns[i], file_ext, text_to_analyze),
      inexact |-> Inexact(keyword_patterns[i], file_ext, text_to_analyze)]]

\* the entries of the result's all_scores
AllScores(category_scores) ==
  [i \in 1..Len(category_scores) |->
     [id |-> category_scores[i].id, score |-> category_scores[i].score]]

\* faulty variant: the last entry with the largest score
BestCategoryLast(category_scores) ==
  LET tied == {i \in 1..Len(category_scores) :
                 \A j \in 1..Len(category_scores) :
                    category_scores[j].score <= category_scores[i].score}
  IN {category_scores[CHOOSE i \in tied : \A j \in tied : j <= i]}

\* max(category_scores.items(), key=lambda x: x[1]): the first entry with the
\* largest float.  Among entries whose exact scores are equal, the floats of
\* the exact ones are equal, and an inexact one may lie on either side.
BestCategory(category_scores) ==
  LET tied == {i \in 1..Len(category_scores) :
                 \A j \in 1..Len(category_scores) :
                    category_scores[j].score <= category_scores[i].score}
      exact == {i \in tied : ~category_scores[i].inexact}
      first_exact == {i \in exact : \A j \in exact : i <= j}
  IN {category_scores[i] : i \in {j \in tied : category_scores[j].inexact} \cup first_exact}

LowConfidenceThreshold == 300

\* faulty variant: the fallback is taken below 0.5
BelowThresholdOfHalf(best_category) == best_category.score < 500

\* confidence < 0.3 may be taken
BelowThreshold(best_category) ==
  \/ best_category.score < LowConfidenceThreshold
  \/ best_category.score = LowConfidenceThreshold /\ best_category.inexact

\* confidence < 0.3 may be skipped
AtLeastThreshold(best_category) == best_category.score >= LowConfidenceThreshold

FallbackConfidence == 850

DefaultConfidence == 750

ConfidenceCap == 980

\* faulty variant: the cap at 0.98 is forgotten
FinalConfidenceUncapped(confidence) == confidence + 50

\* faulty variant: the boost of 0.05 is forgotten
FinalConfidenceWithoutBoost(confidence) == Min(confidence, ConfidenceCap)

FinalConfidence(confidence) == Min(confidence + 50, ConfidenceCap)

PatternById(category_id) ==
  keyword_patterns[CHOOSE i \in 1..Len(keyword_patterns) :
                      keyword_patterns[i].id = category_id]

\* the possible results of enhanced_auto_detect_category
enhanced_auto_detect_category(filename, file_extension, content_title) ==
  LET file_ext == NormalizeExtension(file_extension)
      text_to_analyze == TextToAnalyze(filename, content_title)
      category_scores == CategoryScores(file_ext, text_to_analyze)
  IN IF category_scores # <<>>
       THEN {[category |-> get_category_by_file_extension(file_extension),
              confidence |-> FallbackConfidence,
              method |-> "file_extension_fallback",
              detected_keywords |-> <<>>,
              all_scores |-> AllScores(category_scores)] :
               best_category \in {b \in BestCategory(category_scores) : BelowThreshold(b)}}
            \cup
            {[category |-> best_category.id,
              confidence |-> FinalConfidence(best_category.score),
              method |-> "enhanced_keyword_analysis",
              detected_keywords |->
                MatchedKeywords(PatternById(best_category.id), text_to_analyze),
              all_scores |-> AllScores(category_scores)] :
               best_category \in {b \in BestCategory(category_scores) : AtLeastThreshold(b)}}
       ELSE {[category |-> DefaultCategory,
              confidence |-> DefaultConfidence,
              method |-> "default_fallback",
              detected_keywords |-> <<>>,
              all_scores |-> <<>>]}

(***************************************************************************)
(* Tokenization allocator                                                  *)
(***************************************************************************)
\* Python's None for an optional string argument
None == "<None>"

\* Python's `not x` for an optional string
Falsy(x) == x = None \/ x = ""

CategoryIds == {CONTENT_CATEGORIES[i].id : i \in 1..Len(CONTENT_CATEGORIES)}

CategoryById(category_id) ==
  CONTENT_CATEGORIES[CHOOSE i \in 1..Len(CONTENT_CATEGORIES) :
                        CONTENT_CATEGORIES[i].id = category_id]

\* faulty variant: an unknown id falls back to the first category of the table
get_category_tokenization_structure_FirstAsDefault(category_id) ==
  IF category_id \notin CategoryIds
    THEN CONTENT_CATEGORIES[1].tokenization_structure
    ELSE CategoryById(category_id).tokenization_structure

get_category_tokenization_structure(category_id) ==
  IF category_id \notin CategoryIds
    THEN CategoryById(DefaultCategory).tokenization_structure
    ELSE CategoryById(category_id).tokenization_structure

validate_category_selection(category_id, file_extension) ==
  IF category_id \notin CategoryIds
    THEN FALSE
    ELSE InList(NormalizeExtension(file_extension), CategoryById(category_id).file_types)

total_tokens == 1000

DefaultOriginalityScore == 900

\* faulty variant: a missing score counts as a full 100
OriginalityScoreDefaultFull(analysis) ==
  IF analysis.has_originality_score THEN analysis.originality_score ELSE 1000

\* analysis.get('originality_score', 90), in tenths of a point
OriginalityScore(analysis) ==
  IF analysis.has_originality_score
    THEN analysis.originality_score
    ELSE DefaultOriginalityScore

\* faulty variant: the share is rounded up past the exact quotient
TokenCountPlusOne(details) == (total_tokens * details.percentage) \div 100 + 1

\* faulty variant: the share is taken from base_value instead of percentage
TokenCountFromBaseValue(details) == (total_tokens * details.base_value) \div 100

\* faulty variant: the share is taken from a budget one token short
TokenCountShortBudget(details) == ((total_tokens - 1) * details.percentage) \div 100

\* int(self.total_tokens * details['percentage'] / 100)
TokenCount(details) == (total_tokens * details.percentage) \div 100

\* round(x, digits) of the value x / unit: the nearest multiple, either
\* neighbour when x lies exactly half way
RoundNearest(x, unit) ==
  LET q == x \div unit
      r == x % unit
  IN IF 2 * r < unit THEN {q}
     ELSE IF 2 * r > unit THEN {q + 1}
     ELSE {q, q + 1}

\* faulty variant: the rounded unit value is multiplied by the count
RoundedTimesCount(x, n, unit) == {v * n : v \in RoundNearest(x, unit)}

\* round of (x * n) / unit, computed without leaving 32 bits
RoundNearestProduct(x, n, unit) ==
  {(x \div unit) * n + c : c \in RoundNearest((x % unit) * n, unit)}

\* the quality factors of each specialized tokenizer, in draw order, with the
\* bounds of random.uniform in thousandths
film_factors ==
  <<[name |-> "production_quality", lo |-> 800, hi |-> 1000],
    [name |-> "narrative_complexity", lo |-> 700, hi |-> 950],
    [name |-> "technical_innovation", lo |-> 600, hi |-> 900],
    [name |-> "commercial_potential", lo |-> 500, hi |-> 850]>>

animation_factors ==
  <<[name |-> "artistic_style", lo |-> 800, hi |-> 1000],
    [name |-> "animation_quality", lo |-> 700, hi |-> 950],
    [name |-> "character_appeal", lo |-> 600, hi |-> 900],
    [name |-> "technical_complexity", lo |-> 500, hi |-> 850]>>

screenplay_factors ==
  <<[name |-> "dialogue_quality", lo |-> 800, hi |-> 1000],
    [name |-> "plot_originality", lo |-> 700, hi |-> 950],
    [name |-> "character_depth", lo |-> 600, hi |-> 900],
    [name |-> "adaptation_potential", lo |-> 500, hi |-> 850]>>

book_factors ==
  <<[name |-> "prose_quality", lo |-> 800, hi |-> 1000],
    [name |-> "narrative_innovation", lo |-> 700, hi |-> 950],
    [name |-> "world_building", lo |-> 600, hi |-> 900],
    [name |-> "market_appeal", lo |-> 500, hi |-> 850]>>

art_factors ==
  <<[name |-> "artistic_skill", lo |-> 800, hi |-> 1000],
    [name |-> "concept_originality", lo |-> 700, hi |-> 950],
    [name |-> "technical_execution", lo |-> 600, hi |-> 900],
    [name |-> "commercial_viability", lo |-> 500, hi |-> 850]>>

game_factors ==
  <<[name |-> "artistic_quality", lo |-> 800, hi |-> 1000],
    [name |-> "audio_production", lo |-> 700, hi |-> 950],
    [name |-> "narrative_depth", lo |-> 600, hi |-> 900],
    [name |-> "gameplay_innovation", lo |-> 700, hi |-> 1000],
    [name |-> "technical_execution", lo |-> 600, hi |-> 950],
    [name |-> "commercial_potential", lo |-> 500, hi |-> 850]>>

\* the if/elif chains of the specialized tokenizers: the first rule whose text
\* occurs in the bucket name multiplies value_multiplier by factor * scale / 10
film_rules ==
  <<[match |-> "cinematography", factor |-> "technical_innovation", scale |-> 10],
    [match |-> "narrative", factor |-> "narrative_complexity", scale |-> 10],
    [match |-> "distribution", factor |-> "commercial_potential", scale |-> 10]>>

animation_rules ==
  <<[match |-> "artistry", factor |-> "artistic_style", scale |-> 10],
    [match |-> "character", factor |-> "character_appeal", scale |-> 10],
    [match |-> "technical", factor |-> "technical_complexity", scale |-> 10]>>

screenplay_rules ==
  <<[match |-> "dialogue", factor |-> "dialogue_quality", scale |-> 10],
    [match |-> "plot", factor |-> "plot_originality", scale |-> 10],
    [match |-> "character", factor |-> "character_depth", scale |-> 10],
    [match |-> "adaptation", factor |-> "adaptation_potential", scale |-> 10]>>

book_rules ==
  <<[match |-> "prose", factor |-> "prose_quality", scale |-> 10],
    [match |-> "plot", factor |-> "narrative_innovation", scale |-> 10],
    [match |-> "world", factor |-> "world_building", scale |-> 10],
    [match |-> "publishing", factor |-> "market_appeal", scale |-> 10]>>

art_rules ==
  <<[match |-> "composition", factor |-> "artistic_skill", scale |-> 10],
    [match |-> "concept", factor |-> "concept_originality", scale |-> 10],
    [match |-> "technical", factor |-> "technical_execution", scale |-> 10],
    [match |-> "commercial", factor |-> "commercial_viability", scale |-> 10]>>

game_rules ==
  <<[match |-> "visual_art", factor |-> "artistic_quality", scale |-> 10],
    [match |-> "audio_music", factor |-> "audio_production", scale |-> 10],
    [match |-> "sound_effects", factor |-> "audio_production", scale |-> 9],
    [match |-> "narrative", factor |-> "narrative_depth", scale |-> 10],
    [match |-> "gameplay", factor |-> "gameplay_innovation", scale |-> 10],
    [match |-> "code_programming", factor |-> "technical_execution", scale |-> 10],
    [match |-> "distribution", factor |-> "commercial_potential", scale |-> 10]>>

\* faulty variant: the first factor drawn is used for every rule
FactorValueFirst(factors, draws, name) == draws[1]

\* the value drawn for the named factor; draws[i] is the draw of factors[i]
FactorValue(factors, draws, name) ==
  draws[CHOOSE i \in 1..Len(factors) : factors[i].name = name]

UnitMultiplier == 10000

\* faulty variant: a matching rule doubles the factor
ValueMultiplierDoubled(bucket_name, rules, factors, draws) ==
  LET hits == {i \in 1..Len(rules) : Contains(rules[i].match, bucket_name)}
  IN IF hits = {}
       THEN UnitMultiplier
       ELSE LET rule == rules[CHOOSE i \in hits : \A j \in hits : i <= j]
            IN 2 * draws[CHOOSE i \in 1..Len(factors) : factors[i].name = rule.factor]
                 * rule.scale

\* value_multiplier of a bucket, in ten-thousandths
ValueMultiplier(bucket_name, rules, factors, draws) ==
  LET hits == {i \in 1..Len(rules) : Contains(rules[i].match, bucket_name)}
  IN IF hits = {}
       THEN UnitMultiplier
       ELSE LET rule == rules[CHOOSE i \in hits : \A j \in hits : i <= j]
            IN FactorValue(factors, draws, rule.factor) * rule.scale

\* faulty variant: the originality factor is left out of the product
TokenValueWithoutOriginality(details, originality_score, value_multiplier) ==
  details.base_value * 1000 * value_multiplier

\* faulty variant: the value multiplier is left out of the product
TokenValueWithoutMultiplier(details, originality_score, value_multiplier) ==
  details.base_value * originality_score * UnitMultiplier

\* details['base_value'] * originality_factor * value_multiplier, in 10^-7 dollars
TokenValue(details, originality_score, value_multiplier) ==
  details.base_value * originality_score * value_multiplier

\* 10^-7 dollars in one cent, the resolution of round(value, 2)
UnitsPerCent == 100000

\* faulty variant: one token of every bucket is withheld from sale
AvailableTokensLessOne(token_count) == token_count - 1

\* 'available_tokens': token_count
AvailableTokens(token_count) == token_count

\* faulty variant: the generic tokenizer discounts every bucket by a tenth
BucketEntriesGenericDiscount(details, originality_score, value_multiplier, generic) ==
  LET token_count == TokenCount(details)
      token_value == TokenValue(details, originality_score,
                                IF generic THEN UnitMultiplier - 1000
                                ELSE value_multiplier)
  IN {[name |-> details.name,
       token_count |-> token_count,
       token_value_usd |-> unit_value,
       total_value_usd |-> total_value,
       available_tokens |-> AvailableTokens(token_count),
       sold_tokens |-> 0,
       originality_factor |-> originality_score,
       value_multiplier |-> reported_multiplier] :
        unit_value \in RoundNearest(token_value, UnitsPerCent),
        total_value \in RoundNearestProduct(token_value, token_count, UnitsPerCent),
        reported_multiplier \in
          IF generic THEN {1000} ELSE RoundNearest(value_multiplier, 10)}

\* the possible entries tokenization['token_categories'][name] of one bucket
BucketEntries(details, originality_score, value_multiplier, generic) ==
  LET token_count == TokenCount(details)
      token_value == TokenValue(details, originality_score, value_multiplier)
  IN {[name |-> details.name,
       token_count |-> token_count,
       token_value_usd |-> unit_value,
       total_value_usd |-> total_value,
       available_tokens |-> AvailableTokens(token_count),
       sold_tokens |-> 0,
       originality_factor |-> originality_score,
       value_multiplier |-> reported_multiplier] :
        unit_value \in RoundNearest(token_value, UnitsPerCent),
        total_value \in RoundNearestProduct(token_value, token_count, UnitsPerCent),
        reported_multiplier \in
          IF generic THEN {1000} ELSE RoundNearest(value_multiplier, 10)}

\* the possible token_categories after the loop over structure.items()
RECURSIVE TokenCategories(_, _, _, _, _, _)
TokenCategories(structure, originality_score, rules, factors, draws, generic) ==
  IF structure = <<>>
    THEN {<<>>}
    ELSE LET details == Head(structure)
             vm == IF generic THEN UnitMultiplier
                   ELSE ValueMultiplier(details.name, rules, factors, draws)
         IN {<<entry>> \o rest :
               entry \in BucketEntries(details, originality_score, vm, generic),
               rest \in TokenCategories(Tail(structure), originality_score,
                                        rules, factors, draws, generic)}

\* faulty variant: an unrecognized id is reported as the default category
_create_base_tokenization_DefaultReported(content_id, category, analysis) ==
  [content_id |-> content_id,
   content_category |-> IF category \in CategoryIds THEN category ELSE DefaultCategory,
   total_tokens |-> total_tokens,
   originality_factor |-> OriginalityScore(analysis),
   version |-> "1.1"]

_create_base_tokenization(content_id, category, analysis) ==
  [content_id |-> content_id,
   content_category |-> category,
   total_tokens |-> total_tokens,
   originality_factor |-> OriginalityScore(analysis),
   version |-> "1.1"]

\* round(factor * 100, 1) of every drawn factor, in tenths of a point
FactorScores(factors, draws) ==
  [i \in 1..Len(factors) |-> [name |-> factors[i].name, score |-> draws[i]]]

\* the possible results of a specialized tokenizer (tokenize_film, ...)
tokenize_specialized(category, factors, rules, content_id, analysis, draws) ==
  LET structure == get_category_tokenization_structure(category)
      base == _create_base_tokenization(content_id, category, analysis)
  IN {[content_id |-> base.content_id,
       content_category |-> base.content_category,
       total_tokens |-> base.total_tokens,
       originality_factor |-> base.originality_factor,
       version |-> base.version,
       token_categories |-> token_categories,
       category_analysis |-> [content_category |-> category,
                              generic |-> FALSE,
                              factor_scores |-> FactorScores(factors, draws)]] :
        token_categories \in
          TokenCategories(structure, OriginalityScore(analysis),
                          rules, factors, draws, FALSE)}

tokenize_film(content_id, analysis, draws) ==
  tokenize_specialized("film", film_factors, film_rules, content_id, analysis, draws)

tokenize_animation(content_id, analysis, draws) ==
  tokenize_specialized("animation", animation_factors, animation_rules,
                       content_id, analysis, draws)

tokenize_screenplay(content_id, analysis, draws) ==
  tokenize_specialized("screenplay", screenplay_factors, screenplay_rules,
                       content_id, analysis, draws)

tokenize_book_writing(content_id, analysis, draws) ==
  tokenize_specialized("book_writing", book_factors, book_rules,
                       content_id, analysis, draws)

tokenize_digital_art(content_id, analysis, draws) ==
  tokenize_specialized("digital_art", art_factors, art_rules,
                       content_id, analysis, draws)

tokenize_video_games(content_id, analysis, draws) ==
  tokenize_specialized("video_games", game_factors, game_rules,
                       content_id, analysis, draws)

tokenize_generic(content_id, analysis, category) ==
  LET structure == get_category_tokenization_structure(category)
      base == _create_base_tokenization(content_id, category, analysis)
  IN {[content_id |-> base.content_id,
       content_category |-> base.content_category,
       total_tokens |-> base.total_tokens,
       originality_factor |-> base.originality_factor,
       version |-> base.version,
       token_categories |-> token_categories,
       category_analysis |-> [content_category |-> category,
                              generic |-> TRUE,
                              factor_scores |-> <<>>]] :
        token_categories \in
          TokenCategories(structure, OriginalityScore(analysis),
                          <<>>, <<>>, <<>>, TRUE)}

\* the factors the tokenizer chosen for `category` draws
FactorsOf(category) ==
  CASE category = "film" -> film_factors
    [] category = "animation" -> animation_factors
    [] category = "screenplay" -> screenplay_factors
    [] category = "book_writing" -> book_factors
    [] category = "digital_art" -> art_factors
    [] category = "video_games" -> game_factors
    [] OTHER -> <<>>

\* tokenizer_map.get(category, generic) applied to (content_id, analysis)
get_specialized_tokenizer(category, content_id, analysis, draws) ==
  CASE category = "film" -> tokenize_film(content_id, analysis, draws)
    [] category = "animation" -> tokenize_animation(content_id, analysis, draws)
    [] category = "screenplay" -> tokenize_screenplay(content_id, analysis, draws)
    [] category = "book_writing" -> tokenize_book_writing(content_id, analysis, draws)
    [] category = "digital_art" -> tokenize_digital_art(content_id, analysis, draws)
    [] category = "video_games" -> tokenize_video_games(content_id, analysis, draws)
    [] OTHER -> tokenize_generic(content_id, analysis, category)

RECURSIVE SumTotalValue(_)
SumTotalValue(token_categories) ==
  IF token_categories = <<>> THEN 0
  ELSE Head(token_categories).total_value_usd + SumTotalValue(Tail(token_categories))

\* the category create_specialized_tokenization settles on
ResolveCategory(category, file_extension) ==
  IF Falsy(category) /\ ~Falsy(file_extension)
    THEN get_category_by_file_extension(file_extension)
    ELSE IF Falsy(category) THEN DefaultCategory ELSE category

\* the possible results of create_specialized_tokenization
create_specialized_tokenization(content_id, analysis, category, file_extension, draws) ==
  LET resolved == ResolveCategory(category, file_extension)
  IN {[content_id |-> t.content_id,
       content_category |-> t.content_category,
       total_tokens |-> t.total_tokens,
       originality_factor |-> t.originality_factor,
       version |-> t.version,
       token_categories |-> t.token_categories,
       category_analysis |-> t.category_analysis,
       total_value_usd |-> SumTotalValue(t.token_categories)] :
        t \in get_specialized_tokenizer(resolved, content_id, analysis, draws)}

(***************************************************************************)
(* The earlier tokenizer (src/routes/tokenization.py)                      *)
(***************************************************************************)
\* the local dict token_categories of generate_tokenization_elements
elements_token_categories ==
  <<[name |-> "visual_rights", percentage |-> 30, base_value |-> 50],
    [name |-> "audio_rights", percentage |-> 20, base_value |-> 35],
    [name |-> "narrative_rights", percentage |-> 25, base_value |-> 45],
    [name |-> "character_rights", percentage |-> 15, base_value |-> 30],
    [name |-> "distribution_rights", percentage |-> 10, base_value |-> 25]>>

\* the local total_tokens of generate_tokenization_elements
elements_total_tokens == 1000

\* the possible entries tokenization['token_categories'][category] of the
\* earlier tokenizer
ElementEntries(details, originality_score) ==
  LET token_count == (elements_total_tokens * details.percentage) \div 100
      token_value == details.base_value * originality_score * UnitMultiplier
  IN {[name |-> details.name,
       token_count |-> token_count,
       token_value_usd |-> unit_value,
       total_value_usd |-> total_value,
       available_tokens |-> AvailableTokens(token_count),
       sold_tokens |-> 0] :
        unit_value \in RoundNearest(token_value, UnitsPerCent),
        total_value \in RoundNearestProduct(token_value, token_count, UnitsPerCent)}

RECURSIVE ElementCategories(_, _)
ElementCategories(categories, originality_score) ==
  IF categories = <<>>
    THEN {<<>>}
    ELSE {<<entry>> \o rest :
            entry \in ElementEntries(Head(categories), originality_score),
            rest \in ElementCategories(Tail(categories), originality_score)}

\* the possible results of generate_tokenization_elements
generate_tokenization_elements(content_id, analysis) ==
  {[content_id |-> content_id,
    total_tokens |-> elements_total_tokens,
    originality_factor |-> OriginalityScore(analysis),
    token_categories |-> entries,
    total_value_usd |-> SumTotalValue(entries)] :
     entries \in ElementCategories(elements_token_categories,
                                   OriginalityScore(analysis))}

(***************************************************************************)
(* Float arithmetic                                                        *)
(***************************************************************************)
\* the ways the interpreter may settle an open case: on the lower or on the
\* higher of the candidates
Arithmetics == {"low", "high"}

\* the value round() returns, among the candidates
ComputedRound(candidates) ==
  CHOOSE v \in candidates :
     \A w \in candidates : IF arithmetic = "low" THEN v <= w ELSE w <= v

\* every rounded value of allocation a is at most that of allocation b
ValuesAtMost(a, b) ==
  \A i \in 1..Len(a.token_categories) :
     /\ a.token_categories[i].token_value_usd <= b.token_categories[i].token_value_usd
     /\ a.token_categories[i].total_value_usd <= b.token_categories[i].total_value_usd
     /\ ("value_multiplier" \in DOMAIN a.token_categories[i]) =>
          a.token_categories[i].value_multiplier <= b.token_categories[i].value_multiplier

\* the allocation the interpreter computes, among the possible ones
ComputedAllocation(results) ==
  IF arithmetic = "low"
    THEN {r \in results : \A q \in results : ValuesAtMost(r, q)}
    ELSE {r \in results : \A q \in results : ValuesAtMost(q, r)}

\* position of a detection result's category among the entries compared by max
WinnerPosition(result) ==
  IF result.method = "enhanced_keyword_analysis"
    THEN CHOOSE i \in 1..Len(keyword_patterns) : keyword_patterns[i].id = result.category
    ELSE 0

\* faulty variant: entries with equal scores are told apart by chance
ComputedDetectionAtRandom(results) == results

\* the detection the interpreter computes, among the possible ones
ComputedDetection(results) ==
  IF arithmetic = "low"
    THEN {r \in results : \A q \in results : WinnerPosition(r) <= WinnerPosition(q)}
    ELSE {r \in results : \A q \in results : WinnerPosition(q) <= WinnerPosition(r)}

(***************************************************************************)
(* Inputs of the calls                                                     *)
(***************************************************************************)
Filenames ==
  {"", "clip.xyz", "my_screenplay_draft.pdf", "IMG_0042", "holiday",
   "Short Film Trailer", "game_level_art", "song", "manuscript", "photo"}

Titles == {"", "Act One Dialogue", "Untitled Content", "My Novel"}

TableExtensions ==
  UNION {Range(CONTENT_CATEGORIES[i].file_types) : i \in 1..Len(CONTENT_CATEGORIES)}

PatternExtensions ==
  UNION {Range(keyword_patterns[i].file_types) : i \in 1..Len(keyword_patterns)}

Extensions ==
  TableExtensions \cup PatternExtensions
    \cup {"", "xyz", ".PDF", "MP4", "..Mp3", ".Jpg", "."}

ContentIds == {"id1"}

\* originality scores in tenths of a point: inside [0,100], and outside it,
\* which the allocator does not validate
OriginalityScores == {0, 5, 333, 900, 1500, -100}

Analyses ==
  {[has_originality_score |-> FALSE, originality_score |-> 0]}
    \cup {[has_originality_score |-> TRUE, originality_score |-> s] :
            s \in OriginalityScores}

UnknownCategoryIds == {"music", "gaming", "software", "unknown_category"}

\* (category, file_extension) argument pairs of create_specialized_tokenization
CategoryArguments ==
  {<<c, None>> : c \in CategoryIds \cup UnknownCategoryIds}
    \cup {<<None, e>> : e \in {".PDF", "m4a", "xyz"}}
    \cup {<<None, None>>, <<"", "webm">>}

\* how far above the lower bound of random.uniform the sampled draws reach
MaxFactorOffset == 1

\* sampled outcomes of random.uniform(lo, hi): both ends and points near lo
FactorDraws(factor) ==
  {factor.lo, factor.hi} \cup {factor.lo + k : k \in 1..MaxFactorOffset}

RECURSIVE DrawChoices(_)
DrawChoices(factors) ==
  IF factors = <<>>
    THEN {<<>>}
    ELSE {<<d>> \o rest : d \in FactorDraws(Head(factors)),
                          rest \in DrawChoices(Tail(factors))}

(***************************************************************************)
(* The /tokenize route of version 1.1                                      *)
(***************************************************************************)
\* request.get_json() of an empty body
EmptyData ==
  [empty |-> TRUE, content_id |-> None, creator_address |-> None,
   analysis |-> [has_originality_score |-> FALSE, originality_score |-> 0],
   category |-> None, file_extension |-> None, title |-> None]

\* JSON bodies of the requests; None stands for a key that is absent
TokenizeRequests ==
  {EmptyData} \cup
  [empty : {FALSE},
   content_id : {None, "", "id1", "my_screenplay_draft.pdf"},
   creator_address : {None, "0xabc"},
   analysis : {[has_originality_score |-> FALSE, originality_score |-> 0],
               [has_originality_score |-> TRUE, originality_score |-> 900]},
   category : {None, "", "film", "music"},
   file_extension : {None, "", "mp4", ".PDF", "xyz", "mp3"},
   title : {None, "Act One Dialogue"}]

\* data.get(key, default)
GetOr(value, default) == IF value = None THEN default ELSE value

\* faulty variant: the wallet reports that no token was issued
create_wallet_integration_NothingIssued(content_id, creator_address, allocation) ==
  [content_id |-> content_id,
   creator_address |-> creator_address,
   total_tokens_issued |-> 0,
   tokens_created |-> allocation.total_tokens,
   content_category |-> allocation.content_category]

create_wallet_integration(content_id, creator_address, allocation) ==
  [content_id |-> content_id,
   creator_address |-> creator_address,
   total_tokens_issued |-> allocation.total_tokens,
   tokens_created |-> allocation.total_tokens,
   content_category |-> allocation.content_category]

\* jsonify(success=False, error=...), status
ErrorResponse(status, error) == [success |-> FALSE, status |-> status, error |-> error]

\* faulty variant: a missing extension is looked up like a string
LowerNeverRaises(file_extension) == FALSE

\* file_extension.lower() raises AttributeError when the value is None
LowerRaises(file_extension) == file_extension = None

\* the str() of the AttributeError raised by None.lower()
NoneHasNoLower == "'NoneType' object has no attribute 'lower'"

(***************************************************************************)
(* Overlapping calls                                                       *)
(***************************************************************************)
\* request threads of the server that may be inside a call at the same time
MaxThreads == 2

Threads == 1..MaxThreads

NoCall == [state |-> "idle"]

NoFrame == [live |-> FALSE]

NoAnalysis == [has_originality_score |-> FALSE, originality_score |-> 0]

\* faulty variant: every call works in one and the same record, as it would
\* if the functions kept their working data at module level
SharedFrame(t) == 1

\* the activation record of the call thread t is in: every call binds its
\* parameters and locals (and the allocator its own SpecializedTokenizer) anew
Frame(t) == t

\* inputs of the overlapping classifier calls
ThreadedDetections ==
  {<<"manuscript", "pdf", "">>, <<"song", "mp3", "">>, <<"clip.xyz", "xyz", "My Novel">>}

\* inputs (analysis, category, file_extension) of the overlapping allocator calls
ThreadedAllocations ==
  {<<NoAnalysis, "film", None>>,
   <<[has_originality_score |-> TRUE, originality_score |-> 333], "photography", None>>,
   <<[has_originality_score |-> TRUE, originality_score |-> 5], None, "m4a">>}

\* sampled outcomes of the draws of one overlapping call: all factors at their
\* lower bounds, or all at their upper bounds
ExtremeDraws(factors) ==
  {[k \in 1..Len(factors) |-> factors[k].lo],
   [k \in 1..Len(factors) |-> factors[k].hi]}

(***************************************************************************)
(* Registration (src/routes/registration.py)                               *)
(***************************************************************************)
\* timedelta(hours=24): the life of a verification token
VerificationHours == 24

\* the clock advances in steps of this many hours, up to MaxClock
ClockStep == 24

MaxClock == 48

\* the number of distinct outcomes of secrets.token_urlsafe(32)
MaxTokens == 2

\* outcomes of secrets.token_urlsafe(32); a value may come up twice
Tokens == {"t" \o ToString(k) : k \in 1..MaxTokens}

\* the username and email fields of the request bodies
RawUsernames == {"alice", " bob ", "al", ""}

RawEmails == {"a@x.io", "A@x.io ", "b@x.io", ""}

\* a row of the table users as INSERT writes it
UserRow(id, username, email, token) ==
  [id |-> id, username |-> username, email |-> email,
   email_verified |-> FALSE, verification_token |-> token]

\* a row of the table email_verifications as INSERT writes it
VerificationRow(user_id, token, now) ==
  [user_id |-> user_id, token |-> token,
   expires_at |-> now + VerificationHours, used |-> FALSE]

\* len(username) < 3 or len(username) > 30; the request bodies of the model
\* use only characters the patterns of validate_username and validate_email
\* admit, and a password validate_password admits
validate_username(username) == Len(username) >= 3 /\ Len(username) <= 30

\* SELECT id FROM users WHERE username = ? OR email = ?
ExistingUser(username, email) ==
  \E k \in 1..Len(users) : users[k].username = username \/ users[k].email = email

\* faulty variant: the columns carry no UNIQUE constraint
UniqueViolationNever(username, email) == FALSE

\* the UNIQUE constraints of users.username and users.email, at INSERT
UniqueViolation(username, email) ==
  \E k \in 1..Len(users) : users[k].username = username \/ users[k].email = email

\* the UNIQUE constraint of email_verifications.token, at INSERT
TokenTaken(token) ==
  \E k \in 1..Len(email_verifications) : email_verifications[k].token = token

\* the row of email_verifications that the join of verify_email finds
VerificationOf(token) ==
  CHOOSE k \in 1..Len(email_verifications) : email_verifications[k].token = token

\* the row of users with the given id
UserWithId(user_id) == CHOOSE k \in 1..Len(users) : users[k].id = user_id

\* faulty variant: the used flag is not looked at
VerifyOutcomeIgnoringUsed(token) ==
  IF token = "" THEN "Verification token is required"
  ELSE IF ~TokenTaken(token) THEN "Invalid verification token"
  ELSE IF clock > email_verifications[VerificationOf(token)].expires_at
    THEN "Verification token has expired"
    ELSE "ok"

\* the checks of verify_email, in order
VerifyOutcome(token) ==
  IF token = "" THEN "Verification token is required"
  ELSE IF ~TokenTaken(token) THEN "Invalid verification token"
  ELSE IF clock > email_verifications[VerificationOf(token)].expires_at
    THEN "Verification token has expired"
    ELSE IF email_verifications[VerificationOf(token)].used
      THEN "Verification token has already been used"
      ELSE "ok"

\* the request a thread is serving, or has answered
Request(pc, kind, username, email, token, status, error) ==
  [pc |-> pc, kind |-> kind, username |-> username, email |-> email,
   token |-> token, status |-> status, error |-> error]

NoRequest == [pc |-> "idle"]

\* the answered request: jsonify(...), status
Answered(request, status, error) ==
  Request("done", request.kind, request.username, request.email, request.token,
          status, error)

(***************************************************************************)
(* State machine                                                           *)
(***************************************************************************)
Init ==
  /\ detection = [called |-> FALSE]
  /\ tokenization = [called |-> FALSE]
  /\ elements = [called |-> FALSE]
  /\ arithmetic \in Arithmetics
  /\ calls = [t \in Threads |-> NoCall]
  /\ frames = [t \in Threads |-> NoFrame]
  /\ lookup = [called |-> FALSE]
  /\ flow = [pc |-> "idle"]
  /\ users = <<>>
  /\ email_verifications = <<>>
  /\ clock = 0
  /\ requests = [t \in Threads |-> [pc |-> "idle"]]

\* no call is in progress: the caller is between two requests
LibraryIdle ==
  /\ ~detection.called /\ ~tokenization.called /\ ~elements.called
  /\ ~lookup.called

\* no request is being served by the tokenize route or the registration routes
ServicesIdle ==
  /\ flow.pc = "idle"
  /\ \A t \in Threads : requests[t].pc = "idle"

Idle ==
  /\ LibraryIdle
  /\ ServicesIdle
  /\ \A t \in Threads : calls[t].state = "idle"

\* one call of enhanced_auto_detect_category
Classify(filename, file_extension, content_title) ==
  /\ Idle
  /\ \E result \in ComputedDetection(
                      enhanced_auto_detect_category(filename, file_extension,
                                                    content_title)) :
       detection' =
         [called |-> TRUE,
          filename |-> filename,
          file_extension |-> file_extension,
          content_title |-> content_title,
          result |-> result]
  /\ UNCHANGED <<tokenization, elements, lookup, arithmetic, threaded, services>>

\* one call of create_specialized_tokenization
Allocate(content_id, analysis, category, file_extension) ==
  /\ Idle
  /\ \E draws \in DrawChoices(FactorsOf(ResolveCategory(category, file_extension))) :
       \E result \in ComputedAllocation(
                        create_specialized_tokenization(content_id, analysis, category,
                                                        file_extension, draws)) :
         tokenization' =
           [called |-> TRUE,
            content_id |-> content_id,
            analysis |-> analysis,
            category |-> category,
            file_extension |-> file_extension,
            draws |-> draws,
            result |-> result]
  /\ UNCHANGED <<detection, elements, lookup, arithmetic, threaded, services>>

\* one call of generate_tokenization_elements
GenerateElements(content_id, analysis) ==
  /\ Idle
  /\ \E result \in ComputedAllocation(generate_tokenization_elements(content_id, analysis)) :
       elements' =
         [called |-> TRUE,
          content_id |-> content_id,
          analysis |-> analysis,
          result |-> result]
  /\ UNCHANGED <<detection, tokenization, lookup, arithmetic, threaded, services>>

\* one call of get_category_by_file_extension
LookUpCategory(file_extension) ==
  /\ Idle
  /\ lookup' = [called |-> TRUE,
                function |-> "get_category_by_file_extension",
                category_id |-> None,
                file_extension |-> file_extension,
                category |-> get_category_by_file_extension(file_extension),
                valid |-> FALSE]
  /\ UNCHANGED <<sequential, arithmetic, threaded, services>>

\* one call of validate_category_selection
ValidateSelection(category_id, file_extension) ==
  /\ Idle
  /\ lookup' = [called |-> TRUE,
                function |-> "validate_category_selection",
                category_id |-> category_id,
                file_extension |-> file_extension,
                category |-> None,
                valid |-> validate_category_selection(category_id, file_extension)]
  /\ UNCHANGED <<sequential, arithmetic, threaded, services>>

\* the caller has consumed the result and may issue the next call
Return ==
  /\ ~LibraryIdle
  /\ detection' = [called |-> FALSE]
  /\ tokenization' = [called |-> FALSE]
  /\ elements' = [called |-> FALSE]
  /\ lookup' = [called |-> FALSE]
  /\ UNCHANGED <<arithmetic, threaded, services>>

\* a POST to /tokenize arrives and request.get_json() is read
ReceiveTokenizeRequest(data) ==
  /\ Idle
  /\ flow' = [pc |-> "received", data |-> data, trace |-> <<>>]
  /\ UNCHANGED <<sequential, lookup, arithmetic, threaded, registration>>

\* the checks `if not data` and `if not content_id`
CheckContentId ==
  /\ flow.pc = "received"
  /\ flow' =
       IF flow.data.empty
         THEN [pc |-> "responded", data |-> flow.data, trace |-> flow.trace,
               response |-> ErrorResponse(400, "No data provided")]
         ELSE IF Falsy(flow.data.content_id)
           THEN [pc |-> "responded", data |-> flow.data, trace |-> flow.trace,
                 response |-> ErrorResponse(400, "Content ID required")]
           ELSE [pc |-> "detect", data |-> flow.data, trace |-> flow.trace]
  /\ UNCHANGED <<sequential, lookup, arithmetic, threaded, registration>>

\* the category is settled: by the classifier when only an extension came,
\* by get_category_by_file_extension when neither came (None.lower() raises
\* and the handler's except clause answers 500), else as given; the call of
\* validate_category_selection that follows only writes to the log
DetectCategory ==
  /\ flow.pc = "detect"
  /\ LET data == flow.data IN
       IF Falsy(data.category) /\ ~Falsy(data.file_extension)
         THEN \E detection_result \in
                  ComputedDetection(
                    enhanced_auto_detect_category(data.content_id, data.file_extension,
                                                  GetOr(data.title, ""))) :
                flow' = [pc |-> "allocate", data |-> data,
                         trace |-> Append(flow.trace, "enhanced_auto_detect_category"),
                         detected |-> TRUE,
                         detection_result |-> detection_result,
                         category |-> detection_result.category]
         ELSE IF Falsy(data.category) /\ LowerRaises(data.file_extension)
           THEN flow' = [pc |-> "responded", data |-> data,
                         trace |-> Append(flow.trace, "get_category_by_file_extension"),
                         response |-> ErrorResponse(500, NoneHasNoLower)]
           ELSE IF Falsy(data.category)
             THEN flow' = [pc |-> "allocate", data |-> data,
                           trace |-> Append(flow.trace, "get_category_by_file_extension"),
                           detected |-> FALSE,
                           category |-> get_category_by_file_extension(data.file_extension)]
             ELSE flow' = [pc |-> "allocate", data |-> data, trace |-> flow.trace,
                           detected |-> FALSE,
                           category |-> data.category]
  /\ UNCHANGED <<sequential, lookup, arithmetic, threaded, registration>>

\* the call of create_specialized_tokenization
GenerateTokenization ==
  /\ flow.pc = "allocate"
  /\ \E draws \in ExtremeDraws(FactorsOf(ResolveCategory(flow.category,
                                                          flow.data.file_extension))) :
       \E result \in ComputedAllocation(
                        create_specialized_tokenization(
                          flow.data.content_id, flow.data.analysis, flow.category,
                          flow.data.file_extension, draws)) :
         flow' = [pc |-> "wallet", data |-> flow.data,
                  trace |-> Append(flow.trace, "create_specialized_tokenization"),
                  detected |-> flow.detected,
                  detection_category |-> IF flow.detected
                                           THEN flow.detection_result.category
                                           ELSE None,
                  category |-> flow.category,
                  allocator_arguments |->
                    [content_id |-> flow.data.content_id,
                     analysis |-> flow.data.analysis,
                     category |-> flow.category,
                     file_extension |-> flow.data.file_extension],
                  tokenization |-> result]
  /\ UNCHANGED <<sequential, lookup, arithmetic, threaded, registration>>

\* the call of create_wallet_integration and the success response
CreateWallet ==
  /\ flow.pc = "wallet"
  /\ flow' = [pc |-> "responded", data |-> flow.data,
              trace |-> Append(flow.trace, "create_wallet_integration"),
              detected |-> flow.detected,
              detection_category |-> flow.detection_category,
              category |-> flow.category,
              allocator_arguments |-> flow.allocator_arguments,
              tokenization |-> flow.tokenization,
              wallet_data |->
                create_wallet_integration(
                  flow.data.content_id,
                  GetOr(flow.data.creator_address, "anonymous"),
                  flow.tokenization),
              response |-> [success |-> TRUE, status |-> 200, error |-> None]]
  /\ UNCHANGED <<sequential, lookup, arithmetic, threaded, registration>>

\* the response has been sent
FinishTokenizeRequest ==
  /\ flow.pc = "responded"
  /\ flow' = [pc |-> "idle"]
  /\ UNCHANGED <<sequential, lookup, arithmetic, threaded, registration>>

\* thread t enters enhanced_auto_detect_category: the arguments are bound in
\* the call's activation record
CallClassifier(t, filename, file_extension, content_title) ==
  /\ LibraryIdle /\ ServicesIdle
  /\ calls[t].state # "running"
  /\ calls' = [calls EXCEPT ![t] =
                 [state |-> "running",
                  function |-> "enhanced_auto_detect_category",
                  filename |-> filename,
                  file_extension |-> file_extension,
                  content_title |-> content_title,
                  content_id |-> None,
                  analysis |-> NoAnalysis,
                  category |-> None,
                  draws |-> <<>>,
                  result |-> [returned |-> FALSE]]]
  /\ frames' = [frames EXCEPT ![Frame(t)] =
                  [live |-> TRUE,
                   done |-> FALSE,
                   function |-> "enhanced_auto_detect_category",
                   filename |-> filename,
                   file_extension |-> file_extension,
                   content_title |-> content_title,
                   content_id |-> None,
                   analysis |-> NoAnalysis,
                   category |-> None,
                   draws |-> <<>>,
                   result |-> [returned |-> FALSE]]]
  /\ UNCHANGED <<sequential, lookup, arithmetic, services>>

\* thread t enters create_specialized_tokenization
CallAllocator(t, content_id, analysis, category, file_extension) ==
  /\ LibraryIdle /\ ServicesIdle
  /\ calls[t].state # "running"
  /\ calls' = [calls EXCEPT ![t] =
                 [state |-> "running",
                  function |-> "create_specialized_tokenization",
                  filename |-> None,
                  file_extension |-> file_extension,
                  content_title |-> None,
                  content_id |-> content_id,
                  analysis |-> analysis,
                  category |-> category,
                  draws |-> <<>>,
                  result |-> [returned |-> FALSE]]]
  /\ frames' = [frames EXCEPT ![Frame(t)] =
                  [live |-> TRUE,
                   done |-> FALSE,
                   function |-> "create_specialized_tokenization",
                   filename |-> None,
                   file_extension |-> file_extension,
                   content_title |-> None,
                   content_id |-> content_id,
                   analysis |-> analysis,
                   category |-> category,
                   draws |-> <<>>,
                   result |-> [returned |-> FALSE]]]
  /\ UNCHANGED <<sequential, lookup, arithmetic, services>>

\* thread t runs the body of the classifier on what its activation record holds
RunClassifier(t) ==
  LET frame == frames[Frame(t)]
  IN /\ calls[t].state = "running"
     /\ frame.live
     /\ ~frame.done
     /\ frame.function = "enhanced_auto_detect_category"
     /\ \E result \in ComputedDetection(
                         enhanced_auto_detect_category(frame.filename,
                                                       frame.file_extension,
                                                       frame.content_title)) :
          frames' = [frames EXCEPT ![Frame(t)] =
                       [frame EXCEPT !.done = TRUE, !.result = result]]
     /\ UNCHANGED <<sequential, lookup, arithmetic, calls, services>>

\* thread t runs the body of the allocator on what its activation record holds
RunAllocator(t) ==
  LET frame == frames[Frame(t)]
  IN /\ calls[t].state = "running"
     /\ frame.live
     /\ ~frame.done
     /\ frame.function = "create_specialized_tokenization"
     /\ \E draws \in ExtremeDraws(FactorsOf(ResolveCategory(frame.category,
                                                             frame.file_extension))) :
          \E result \in ComputedAllocation(
                           create_specialized_tokenization(
                             frame.content_id, frame.analysis, frame.category,
                             frame.file_extension, draws)) :
            frames' = [frames EXCEPT ![Frame(t)] =
                         [frame EXCEPT !.done = TRUE, !.draws = draws,
                                       !.result = result]]
     /\ UNCHANGED <<sequential, lookup, arithmetic, calls, services>>

\* the call of thread t returns what its activation record holds
ReturnToCaller(t) ==
  LET frame == frames[Frame(t)]
  IN /\ calls[t].state = "running"
     /\ frame.live
     /\ frame.done
     /\ calls' = [calls EXCEPT ![t] =
                    [@ EXCEPT !.state = "returned", !.draws = frame.draws,
                              !.result = frame.result]]
     /\ frames' = [frames EXCEPT ![Frame(t)] = NoFrame]
     /\ UNCHANGED <<sequential, lookup, arithmetic, services>>

CallClassifierStep ==
  \E t \in Threads, args \in ThreadedDetections :
    CallClassifier(t, args[1], args[2], args[3])

CallAllocatorStep ==
  \E t \in Threads, content_id \in ContentIds, args \in ThreadedAllocations :
    CallAllocator(t, content_id, args[1], args[2], args[3])

RunClassifierStep == \E t \in Threads : RunClassifier(t)

RunAllocatorStep == \E t \in Threads : RunAllocator(t)

ReturnToCallerStep == \E t \in Threads : ReturnToCaller(t)

ClassifyStep ==
  \E filename \in Filenames, file_extension \in Extensions, content_title \in Titles :
    Classify(filename, file_extension, content_title)

AllocateStep ==
  \E content_id \in ContentIds, analysis \in Analyses, args \in CategoryArguments :
    Allocate(content_id, analysis, args[1], args[2])

LookUpCategoryStep ==
  \E file_extension \in Extensions : LookUpCategory(file_extension)

ValidateSelectionStep ==
  \E category_id \in CategoryIds \cup UnknownCategoryIds, file_extension \in Extensions :
    ValidateSelection(category_id, file_extension)

GenerateElementsStep ==
  \E content_id \in ContentIds, analysis \in Analyses :
    GenerateElements(content_id, analysis)

\* calls of several threads, interleaved
\* the thread that serves the requests that arrive one after another
FirstThread == CHOOSE t \in Threads : \A u \in Threads : t <= u

\* no other thread is serving a registration request
OthersIdle(t) == \A u \in Threads \ {t} : requests[u].pc = "idle"

\* another connection holds the write lock of the database file
WriteLockHeld(t) ==
  \E u \in Threads \ {t} : requests[u].pc \in {"insert_verification", "commit"}

\* another connection waits for the write lock and keeps its read lock
ReadLockHeld(t) == \E u \in Threads \ {t} : requests[u].pc = "insert_user"

\* register_user up to init_user_database(): the fields are read and validated
BeginRegister(t, raw_username, raw_email) ==
  /\ requests[t].pc = "idle"
  /\ LibraryIdle /\ flow.pc = "idle"
  /\ \A u \in Threads : calls[u].state = "idle"
  /\ LET username == Strip(raw_username)
         email == Lower(Strip(raw_email))
         request == Request("select", "register", username, email, None, 0, None)
     IN requests' = [requests EXCEPT ![t] =
          IF username = "" \/ email = ""
            THEN Answered(request, 400, "Username, email, and password are required")
            ELSE IF ~validate_username(username)
              THEN Answered(request, 400, "Username must be at least 3 characters long")
              ELSE request]
  /\ UNCHANGED <<sequential, lookup, arithmetic, threaded, tokenize_route,
                 users, email_verifications, clock>>

\* SELECT id FROM users WHERE username = ? OR email = ?
RegisterSelect(t) ==
  /\ requests[t].pc = "select"
  /\ requests' = [requests EXCEPT ![t] =
       IF ExistingUser(requests[t].username, requests[t].email)
         THEN Answered(requests[t], 409, "Username or email already exists")
         ELSE [requests[t] EXCEPT !.pc = "insert_user"]]
  /\ UNCHANGED <<sequential, lookup, arithmetic, threaded, tokenize_route,
                 users, email_verifications, clock>>

\* the token is generated and INSERT INTO users runs: it waits while another
\* connection holds the write lock and gives up with "database is locked"
\* when the wait times out; the UNIQUE constraints are checked; the row stays
\* uncommitted
RegisterInsertUser(t, token) ==
  /\ requests[t].pc = "insert_user"
  /\ requests' = [requests EXCEPT ![t] =
       IF WriteLockHeld(t)
         THEN Answered(requests[t], 500, "Registration failed: database is locked")
         ELSE IF UniqueViolation(requests[t].username, requests[t].email)
           THEN Answered(requests[t], 500, "Registration failed: UNIQUE constraint failed")
           ELSE [requests[t] EXCEPT !.pc = "insert_verification", !.token = token]]
  /\ UNCHANGED <<sequential, lookup, arithmetic, threaded, tokenize_route,
                 users, email_verifications, clock>>

\* INSERT INTO email_verifications: a token already in the table violates
\* its UNIQUE constraint, and the uncommitted user row is rolled back
RegisterInsertVerification(t) ==
  /\ requests[t].pc = "insert_verification"
  /\ requests' = [requests EXCEPT ![t] =
       IF TokenTaken(requests[t].token)
         THEN Answered(requests[t], 500, "Registration failed: UNIQUE constraint failed")
         ELSE [requests[t] EXCEPT !.pc = "commit"]]
  /\ UNCHANGED <<sequential, lookup, arithmetic, threaded, tokenize_route,
                 users, email_verifications, clock>>

\* conn.commit(): both rows become visible and the answer is 201; while
\* another connection keeps a read lock the commit may instead give up with
\* "database is locked", and the uncommitted rows are rolled back
RegisterCommit(t) ==
  /\ requests[t].pc = "commit"
  /\ \/ LET user_id == Len(users) + 1 IN
          /\ users' = Append(users, UserRow(user_id, requests[t].username,
                                            requests[t].email, requests[t].token))
          /\ email_verifications' =
               Append(email_verifications,
                      VerificationRow(user_id, requests[t].token, clock))
          /\ requests' = [requests EXCEPT ![t] = Answered(requests[t], 201, None)]
     \/ /\ ReadLockHeld(t)
        /\ requests' = [requests EXCEPT ![t] =
             Answered(requests[t], 500, "Registration failed: database is locked")]
        /\ UNCHANGED <<users, email_verifications>>
  /\ UNCHANGED <<sequential, lookup, arithmetic, threaded, tokenize_route, clock>>

\* verify_email, served while no other request is
VerifyEmail(t, token) ==
  /\ requests[t].pc = "idle" /\ OthersIdle(t)
  /\ LibraryIdle /\ flow.pc = "idle"
  /\ \A u \in Threads : calls[u].state = "idle"
  /\ LET outcome == VerifyOutcome(token)
         request == Request("done", "verify", None, None, token, 0, None)
     IN IF outcome = "ok"
          THEN LET v == VerificationOf(token)
                   u == UserWithId(email_verifications[v].user_id)
               IN /\ users' = [users EXCEPT ![u].email_verified = TRUE]
                  /\ email_verifications' =
                       [email_verifications EXCEPT ![v].used = TRUE]
                  /\ requests' = [requests EXCEPT ![t] = Answered(request, 200, None)]
          ELSE /\ requests' = [requests EXCEPT ![t] = Answered(request, 400, outcome)]
               /\ UNCHANGED <<users, email_verifications>>
  /\ UNCHANGED <<sequential, lookup, arithmetic, threaded, tokenize_route, clock>>

\* resend_verification, served while no other request is
ResendVerification(t, raw_email, token) ==
  /\ requests[t].pc = "idle" /\ OthersIdle(t)
  /\ LibraryIdle /\ flow.pc = "idle"
  /\ \A u \in Threads : calls[u].state = "idle"
  /\ LET email == Lower(Strip(raw_email))
         found == {k \in 1..Len(users) : users[k].email = email}
         request == Request("done", "resend", None, email, token, 0, None)
     IN IF email = ""
          THEN /\ requests' = [requests EXCEPT ![t] =
                                 Answered(request, 400, "Email address is required")]
               /\ UNCHANGED <<users, email_verifications>>
          ELSE IF found = {}
            THEN /\ requests' = [requests EXCEPT ![t] =
                      Answered(request, 404, "No account found with this email address")]
                 /\ UNCHANGED <<users, email_verifications>>
            ELSE LET u == CHOOSE k \in found : TRUE IN
                 IF users[u].email_verified
                   THEN /\ requests' = [requests EXCEPT ![t] =
                             Answered(request, 400, "Email is already verified")]
                        /\ UNCHANGED <<users, email_verifications>>
                   ELSE IF TokenTaken(token)
                     THEN /\ requests' = [requests EXCEPT ![t] =
                               Answered(request, 500,
                                        "Failed to resend verification: UNIQUE constraint failed")]
                          /\ UNCHANGED <<users, email_verifications>>
                     ELSE /\ email_verifications' =
                               Append(email_verifications,
                                      VerificationRow(users[u].id, token, clock))
                          /\ requests' = [requests EXCEPT ![t] =
                                            Answered(request, 200, None)]
                          /\ UNCHANGED users
  /\ UNCHANGED <<sequential, lookup, arithmetic, threaded, tokenize_route, clock>>

\* the response has been sent
FinishRequest(t) ==
  /\ requests[t].pc = "done"
  /\ requests' = [requests EXCEPT ![t] = NoRequest]
  /\ UNCHANGED <<sequential, lookup, arithmetic, threaded, tokenize_route,
                 users, email_verifications, clock>>

\* time passes between requests
Tick ==
  /\ clock + ClockStep <= MaxClock
  /\ \A t \in Threads : requests[t].pc = "idle"
  /\ clock' = clock + ClockStep
  /\ UNCHANGED <<sequential, lookup, arithmetic, threaded, tokenize_route,
                 users, email_verifications, requests>>

\* requests served one after another
BeginRegisterAloneStep ==
  \E raw_username \in RawUsernames, raw_email \in RawEmails :
    OthersIdle(FirstThread) /\ BeginRegister(FirstThread, raw_username, raw_email)

\* requests served by threads side by side
BeginRegisterStep ==
  \E t \in Threads, raw_username \in RawUsernames, raw_email \in RawEmails :
    BeginRegister(t, raw_username, raw_email)

RegisterSelectStep == \E t \in Threads : RegisterSelect(t)

RegisterInsertUserStep == \E t \in Threads, token \in Tokens : RegisterInsertUser(t, token)

RegisterInsertVerificationStep == \E t \in Threads : RegisterInsertVerification(t)

RegisterCommitStep == \E t \in Threads : RegisterCommit(t)

VerifyEmailStep == \E token \in Tokens \cup {""} : VerifyEmail(FirstThread, token)

ResendVerificationStep ==
  \E raw_email \in RawEmails, token \in Tokens :
    ResendVerification(FirstThread, raw_email, token)

FinishRequestStep == \E t \in Threads : FinishRequest(t)

RegistrationNext ==
  \/ BeginRegisterAloneStep
  \/ RegisterSelectStep
  \/ RegisterInsertUserStep
  \/ RegisterInsertVerificationStep
  \/ RegisterCommitStep
  \/ VerifyEmailStep
  \/ ResendVerificationStep
  \/ FinishRequestStep
  \/ Tick

ConcurrentRegistrationNext ==
  \/ BeginRegisterStep
  \/ RegisterSelectStep
  \/ RegisterInsertUserStep
  \/ RegisterInsertVerificationStep
  \/ RegisterCommitStep
  \/ FinishRequestStep

ReceiveTokenizeRequestStep == \E data \in TokenizeRequests : ReceiveTokenizeRequest(data)

TokenizeRouteNext ==
  \/ ReceiveTokenizeRequestStep
  \/ CheckContentId
  \/ DetectCategory
  \/ GenerateTokenization
  \/ CreateWallet
  \/ FinishTokenizeRequest

ThreadedNext ==
  \/ CallClassifierStep
  \/ CallAllocatorStep
  \/ RunClassifierStep
  \/ RunAllocatorStep
  \/ ReturnToCallerStep

Next ==
  \/ ClassifyStep
  \/ LookUpCategoryStep
  \/ ValidateSelectionStep
  \/ AllocateStep
  \/ GenerateElementsStep
  \/ Return
  \/ ThreadedNext
  \/ TokenizeRouteNext
  \/ RegistrationNext
  \/ ConcurrentRegistrationNext

Spec == Init /\ [][Next]_vars

\* the classifier alone
ClassifierNext == ClassifyStep \/ LookUpCategoryStep \/ ValidateSelectionStep \/ Return

SpecClassifier == Init /\ [][ClassifierNext]_vars

\* the tokenizers alone
AllocatorNext == AllocateStep \/ GenerateElementsStep \/ Return

SpecAllocator == Init /\ [][AllocatorNext]_vars

SpecThreaded == Init /\ [][ThreadedNext]_vars

\* the /tokenize route of version 1.1 alone
SpecTokenizeRoute == Init /\ [][TokenizeRouteNext]_vars

\* the registration routes, one request after another
SpecRegistration == Init /\ [][RegistrationNext]_vars

\* register requests served by threads side by side
SpecConcurrentRegistration == Init /\ [][ConcurrentRegistrationNext]_vars

(***************************************************************************)
(* Properties of the allocator                                             *)
(***************************************************************************)
\* the category the recorded create_specialized_tokenization call settled on
Resolved == ResolveCategory(tokenization.category, tokenization.file_extension)

\* the rights table the call must have used: the category's own, or digital_art's
RightsOf(category) ==
  LET own == {i \in 1..Len(CONTENT_CATEGORIES) : CONTENT_CATEGORIES[i].id = category}
  IN IF own # {}
       THEN CONTENT_CATEGORIES[CHOOSE i \in own : TRUE].tokenization_structure
       ELSE CONTENT_CATEGORIES[5].tokenization_structure

RECURSIVE SumTokenCounts(_)
SumTokenCounts(token_categories) ==
  IF token_categories = <<>> THEN 0
  ELSE Head(token_categories).token_count + SumTokenCounts(Tail(token_categories))

\* C1: for every category, known or not, and every originality score, the
\* token counts of the buckets of an allocation sum to at most the budget of
\* 1000 tokens.
C1_TokenCountsWithinBudget ==
  tokenization.called =>
    /\ tokenization.result.total_tokens = 1000
    /\ SumTokenCounts(tokenization.result.token_categories)
         <= tokenization.result.total_tokens

\* an allocation for an unrecognized category id whose buckets hold tokens
C1_Witness ==
  /\ tokenization.called
  /\ tokenization.category = "gaming"
  /\ tokenization.analysis.has_originality_score
  /\ tokenization.analysis.originality_score = 333
  /\ SumTokenCounts(tokenization.result.token_categories) > 0

\* C2: for a category id outside the category table the allocation is complete
\* and is built from the default category's rights structure: digital_art's
\* buckets in order, with its percentages and base values, and the aggregate
\* value is the sum of the bucket values.
C2_UnknownCategoryUsesDefault ==
  (tokenization.called /\ Resolved \notin CategoryIds) =>
    LET rights == CONTENT_CATEGORIES[5].tokenization_structure
        buckets == tokenization.result.token_categories
        score == OriginalityScore(tokenization.analysis)
    IN /\ CONTENT_CATEGORIES[5].id = "digital_art"
       /\ Len(buckets) = Len(rights)
       /\ \A i \in 1..Len(rights) :
            /\ buckets[i].name = rights[i].name
            /\ buckets[i].token_count = (1000 * rights[i].percentage) \div 100
            /\ buckets[i].available_tokens = buckets[i].token_count
            /\ buckets[i].sold_tokens = 0
            /\ buckets[i].token_value_usd \in
                 RoundNearest(rights[i].base_value * score * 10000, 100000)
       /\ tokenization.result.total_value_usd = SumTotalValue(buckets)
       /\ tokenization.result.content_id = tokenization.content_id

\* an allocation for an id no table knows, with its four buckets
C2_Witness ==
  /\ tokenization.called
  /\ tokenization.category = "unknown_category"
  /\ Len(tokenization.result.token_categories) = 4
  /\ tokenization.result.total_value_usd > 0

\* C3: with originality_score = 0 every bucket has unit value 0 and total
\* value 0, and the aggregate total value is 0, whatever factors are drawn.
C3_ZeroOriginalityZeroValue ==
  (tokenization.called /\ OriginalityScore(tokenization.analysis) = 0) =>
    /\ \A i \in 1..Len(tokenization.result.token_categories) :
         /\ tokenization.result.token_categories[i].token_value_usd = 0
         /\ tokenization.result.token_categories[i].total_value_usd = 0
    /\ tokenization.result.total_value_usd = 0

\* a film allocation with originality_score 0 and factors drawn above their
\* lower bounds
C3_Witness ==
  /\ tokenization.called
  /\ tokenization.analysis.has_originality_score
  /\ tokenization.analysis.originality_score = 0
  /\ Resolved = "film"
  /\ \A i \in 1..Len(tokenization.draws) : tokenization.draws[i] = film_factors[i].hi
  /\ Len(tokenization.result.token_categories) = 6

\* C9: every bucket's token_count is floor(total_budget * percentage / 100), a
\* non-negative integer; for film the cinematography_rights bucket holds 250.
C9_TokenCountIsFloorOfShare ==
  tokenization.called =>
    LET rights == RightsOf(Resolved)
        buckets == tokenization.result.token_categories
    IN /\ Len(buckets) = Len(rights)
       /\ \A i \in 1..Len(buckets) :
            /\ buckets[i].name = rights[i].name
            /\ buckets[i].token_count \in Nat
            /\ 100 * buckets[i].token_count <= 1000 * rights[i].percentage
            /\ 1000 * rights[i].percentage < 100 * (buckets[i].token_count + 1)
       /\ Resolved = "film" =>
            \E i \in 1..Len(buckets) :
               /\ buckets[i].name = "cinematography_rights"
               /\ buckets[i].token_count = 250

\* the film allocation of the scenario: cinematography_rights with 250 tokens
C9_Witness ==
  /\ tokenization.called
  /\ tokenization.category = "film"
  /\ tokenization.result.token_categories[1].name = "cinematography_rights"
  /\ tokenization.result.token_categories[1].token_count = 250

\* the multiplier the recorded call applied to bucket i, in ten-thousandths:
\* the factor drawn for the first rule the bucket name matches, else 1.0
AppliedMultiplier(i) ==
  LET name == RightsOf(Resolved)[i].name
      drawn(k) == tokenization.draws[k]
  IN CASE Resolved = "film" ->
            IF Contains("cinematography", name) THEN 10 * drawn(3)
            ELSE IF Contains("narrative", name) THEN 10 * drawn(2)
            ELSE IF Contains("distribution", name) THEN 10 * drawn(4)
            ELSE 10000
       [] Resolved \in {"animation", "screenplay", "book_writing",
                        "digital_art", "video_games"} ->
            ValueMultiplier(name,
                            CASE Resolved = "animation" -> animation_rules
                              [] Resolved = "screenplay" -> screenplay_rules
                              [] Resolved = "book_writing" -> book_rules
                              [] Resolved = "digital_art" -> art_rules
                              [] OTHER -> game_rules,
                            FactorsOf(Resolved), tokenization.draws)
       [] OTHER -> 10000

\* base_unit_value * originality_factor * value_multiplier of bucket i, in
\* 10^-7 dollars
ExactUnitValue(i) ==
  RightsOf(Resolved)[i].base_value
    * OriginalityScore(tokenization.analysis)
    * AppliedMultiplier(i)

\* C10 as stated: every bucket's unit_value equals base_unit_value *
\* originality_factor * value_multiplier, with originality_factor =
\* originality_score / 100.
C10_UnitValueIsExactProduct ==
  tokenization.called =>
    /\ tokenization.result.originality_factor = OriginalityScore(tokenization.analysis)
    /\ \A i \in 1..Len(tokenization.result.token_categories) :
         tokenization.result.token_categories[i].token_value_usd * 100000
           = ExactUnitValue(i)

\* C10 (amended): every bucket's reported unit_value is base_unit_value *
\* originality_factor * value_multiplier rounded to the nearest cent, with
\* originality_factor = originality_score / 100; for film with
\* originality_score 90 the cinematography_rights unit value is
\* 60.0 * 0.9 * technical_innovation rounded to the nearest cent.
C10_UnitValueIsRoundedProduct ==
  tokenization.called =>
    /\ tokenization.result.originality_factor = OriginalityScore(tokenization.analysis)
    /\ \A i \in 1..Len(tokenization.result.token_categories) :
         LET reported == tokenization.result.token_categories[i].token_value_usd * 100000
         IN /\ 2 * (reported - ExactUnitValue(i)) <= 100000
            /\ 2 * (ExactUnitValue(i) - reported) <= 100000
    /\ (Resolved = "film" /\ OriginalityScore(tokenization.analysis) = 900) =>
         LET reported == tokenization.result.token_categories[1].token_value_usd * 100000
             exact == 60 * 900 * (10 * tokenization.draws[3])
         IN /\ 2 * (reported - exact) <= 100000
            /\ 2 * (exact - reported) <= 100000

\* film, originality_score 90, technical_innovation drawn as 0.601: the exact
\* product 32.454 is reported as 32.45
C10_Witness ==
  /\ tokenization.called
  /\ tokenization.category = "film"
  /\ tokenization.analysis.has_originality_score
  /\ tokenization.analysis.originality_score = 900
  /\ tokenization.draws[3] = 601
  /\ tokenization.result.token_categories[1].token_value_usd = 3245

\* C11: in every allocation of every tokenizer (specialized, generic, and
\* the earlier generate_tokenization_elements) every bucket has sold = 0 and
\* available = token_count, so available + sold = token_count.
C11_NothingSold ==
  /\ tokenization.called =>
       \A i \in 1..Len(tokenization.result.token_categories) :
          LET bucket == tokenization.result.token_categories[i]
          IN /\ bucket.sold_tokens = 0
             /\ bucket.available_tokens = bucket.token_count
             /\ bucket.available_tokens + bucket.sold_tokens = bucket.token_count
  /\ elements.called =>
       \A i \in 1..Len(elements.result.token_categories) :
          LET bucket == elements.result.token_categories[i]
          IN /\ bucket.sold_tokens = 0
             /\ bucket.available_tokens = bucket.token_count
             /\ bucket.available_tokens + bucket.sold_tokens = bucket.token_count

\* an allocation of the earlier tokenizer: five buckets, visual_rights with
\* all of its 300 tokens available
C11_Witness ==
  /\ elements.called
  /\ Len(elements.result.token_categories) = 5
  /\ elements.result.token_categories[1].name = "visual_rights"
  /\ elements.result.token_categories[1].token_count = 300
  /\ elements.result.token_categories[1].available_tokens = 300

\* the keys of tokenizer_map bound to a tokenizer of their own
SpecializedCategoryIds ==
  {"film", "animation", "screenplay", "book_writing", "digital_art", "video_games"}

\* the recorded allocation went through tokenize_generic
GenericCall == tokenization.called /\ Resolved \notin SpecializedCategoryIds

\* C12 as stated: for every generic category (photography, music_composition,
\* podcast_audio, software_code and every id outside the specialized set) the
\* value_multiplier of every bucket is exactly 1.0 and unit_value equals
\* base_unit_value * originality_factor.
C12_GenericUnitValueIsExactProduct ==
  GenericCall =>
    \A i \in 1..Len(tokenization.result.token_categories) :
       LET bucket == tokenization.result.token_categories[i]
       IN /\ bucket.value_multiplier = 1000
          /\ bucket.token_value_usd * 10
               = RightsOf(Resolved)[i].base_value * OriginalityScore(tokenization.analysis)

\* C12 (amended): for every generic category the value_multiplier of every
\* bucket is exactly 1.0, unit_value is base_unit_value * originality_factor
\* rounded to the nearest cent, and the token counts and values of the buckets
\* are determined by the category and the originality score alone, so two
\* allocations with the same category and score have identical buckets.
C12_GenericValuesFollowFromCategoryAndScore ==
  GenericCall =>
    LET rights == RightsOf(Resolved)
        score == OriginalityScore(tokenization.analysis)
        buckets == tokenization.result.token_categories
    IN /\ Len(buckets) = Len(rights)
       /\ \A i \in 1..Len(rights) :
            LET exact == rights[i].base_value * score
                count == (1000 * rights[i].percentage) \div 100
            IN /\ buckets[i].value_multiplier = 1000
               /\ buckets[i].token_count = count
               /\ 2 * (buckets[i].token_value_usd * 10 - exact) <= 10
               /\ 2 * (exact - buckets[i].token_value_usd * 10) <= 10
               /\ buckets[i].token_value_usd = ComputedRound(RoundNearest(exact, 10))
               /\ buckets[i].total_value_usd = ComputedRound(RoundNearest(exact * count, 10))

\* a generic allocation for an id outside the table with originality_score
\* 33.3: the first bucket's exact unit value 55 * 0.333 = 18.315 is not a
\* whole number of cents
C12_Witness ==
  /\ GenericCall
  /\ tokenization.category = "music"
  /\ tokenization.analysis.has_originality_score
  /\ tokenization.analysis.originality_score = 333
  /\ tokenization.result.token_categories[1].value_multiplier = 1000
  /\ tokenization.result.token_categories[1].token_value_usd * 10
       # RightsOf(Resolved)[1].base_value * 333

\* C15: when the caller supplies no originality_score the allocator behaves
\* exactly as for originality_score = 90: the result is the one computed for
\* an explicit 90 with the same draws, with originality_factor 0.9 in the
\* header and in every bucket's unit value.
C15_AbsentScoreIsNinety ==
  (tokenization.called /\ ~tokenization.analysis.has_originality_score) =>
    /\ tokenization.result.originality_factor = 900
    /\ tokenization.result \in
         ComputedAllocation(
           create_specialized_tokenization(
             tokenization.content_id,
             [has_originality_score |-> TRUE, originality_score |-> 900],
             tokenization.category, tokenization.file_extension, tokenization.draws))
    /\ \A i \in 1..Len(tokenization.result.token_categories) :
         LET bucket == tokenization.result.token_categories[i]
             exact == RightsOf(Resolved)[i].base_value * 900 * AppliedMultiplier(i)
         IN /\ bucket.originality_factor = 900
            /\ 2 * (bucket.token_value_usd * 100000 - exact) <= 100000
            /\ 2 * (exact - bucket.token_value_usd * 100000) <= 100000

\* a film allocation without originality_score: audio_soundtrack_rights is
\* worth 45 * 0.9 = 40.50
C15_Witness ==
  /\ tokenization.called
  /\ ~tokenization.analysis.has_originality_score
  /\ tokenization.category = "film"
  /\ tokenization.result.originality_factor = 900
  /\ tokenization.result.token_categories[2].token_value_usd = 4050

\* the recorded allocation went through a specialized tokenizer
SpecializedCall == tokenization.called /\ Resolved \in SpecializedCategoryIds

\* every factor drawn lies in its category's range, inside [0.5, 1.0], and
\* every bucket's multiplier lies in (0, 1]
FactorsAndMultipliersInRange ==
  /\ \A k \in 1..Len(tokenization.draws) :
       /\ FactorsOf(Resolved)[k].lo <= tokenization.draws[k]
       /\ tokenization.draws[k] <= FactorsOf(Resolved)[k].hi
       /\ 500 <= tokenization.draws[k]
       /\ tokenization.draws[k] <= 1000
       /\ tokenization.result.category_analysis.factor_scores[k].score
            = tokenization.draws[k]
  /\ \A i \in 1..Len(tokenization.result.token_categories) :
       /\ 0 < AppliedMultiplier(i)
       /\ AppliedMultiplier(i) <= 10000
       /\ 0 < tokenization.result.token_categories[i].value_multiplier
       /\ tokenization.result.token_categories[i].value_multiplier <= 1000

\* C16 as stated: every factor drawn lies in [0,1], within the category's
\* range between 0.5 and 1.0, every bucket's value_multiplier lies in (0,1]
\* and its unit_value never exceeds base_unit_value * originality_factor
\* (for originality scores in [0,100]).
C16_UnitValueAtMostUnscaledValue ==
  SpecializedCall =>
    /\ FactorsAndMultipliersInRange
    /\ OriginalityScore(tokenization.analysis) \in 0..1000 =>
         \A i \in 1..Len(tokenization.result.token_categories) :
            tokenization.result.token_categories[i].token_value_usd * 10
              <= RightsOf(Resolved)[i].base_value * OriginalityScore(tokenization.analysis)

\* C16 (amended): every factor drawn lies in its category's range inside
\* [0.5, 1.0], every bucket's value_multiplier lies in (0,1], and for a
\* non-negative originality score the reported unit_value exceeds
\* base_unit_value * originality_factor by at most the rounding to the nearest
\* cent (half a cent).
C16_UnitValueAtMostRoundedUnscaledValue ==
  SpecializedCall =>
    /\ FactorsAndMultipliersInRange
    /\ OriginalityScore(tokenization.analysis) >= 0 =>
         \A i \in 1..Len(tokenization.result.token_categories) :
            2 * (tokenization.result.token_categories[i].token_value_usd * 10
                   - RightsOf(Resolved)[i].base_value
                       * OriginalityScore(tokenization.analysis)) <= 10

\* film with originality_score 0.5: production_design_rights, multiplier 1.0,
\* exact value 0.175, is reported as 0.18
C16_Witness ==
  /\ SpecializedCall
  /\ tokenization.category = "film"
  /\ tokenization.analysis.has_originality_score
  /\ tokenization.analysis.originality_score = 5
  /\ tokenization.result.token_categories[5].name = "production_design_rights"
  /\ tokenization.result.token_categories[5].value_multiplier = 1000
  /\ tokenization.result.token_categories[5].token_value_usd = 18

\* the rules of the specialized tokenizer of `category`
RulesOf(category) ==
  CASE category = "film" -> film_rules
    [] category = "animation" -> animation_rules
    [] category = "screenplay" -> screenplay_rules
    [] category = "book_writing" -> book_rules
    [] category = "digital_art" -> art_rules
    [] category = "video_games" -> game_rules
    [] OTHER -> <<>>

\* the rules whose text occurs in the name of bucket i of the recorded call
MatchingRules(i) ==
  {k \in 1..Len(RulesOf(Resolved)) :
     Contains(RulesOf(Resolved)[k].match, RightsOf(Resolved)[i].name)}

\* the draw of the factor named by the first rule matching bucket i
SelectedFactor(i) ==
  LET first == CHOOSE k \in MatchingRules(i) : \A j \in MatchingRules(i) : k <= j
      rule == RulesOf(Resolved)[first]
      k == CHOOSE j \in 1..Len(FactorsOf(Resolved)) :
             FactorsOf(Resolved)[j].name = rule.factor
  IN tokenization.draws[k]

\* the film buckets use the factors the claim names
FilmMultipliers ==
  Resolved = "film" =>
    \A i \in 1..Len(tokenization.result.token_categories) :
       LET bucket == tokenization.result.token_categories[i]
       IN bucket.value_multiplier =
            (IF Contains("cinematography", bucket.name) THEN tokenization.draws[3]
             ELSE IF Contains("narrative", bucket.name) THEN tokenization.draws[2]
             ELSE IF Contains("distribution", bucket.name) THEN tokenization.draws[4]
             ELSE 1000)

\* C20 as stated: in a specialized allocation each bucket's value_multiplier
\* is either 1.0 or exactly the one quality factor selected by the first rule
\* its name matches; the film buckets use technical_innovation
\* (cinematography), narrative_complexity (narrative), commercial_potential
\* (distribution) and 1.0 otherwise.
C20_MultiplierIsOneFactor ==
  SpecializedCall =>
    /\ \A i \in 1..Len(tokenization.result.token_categories) :
         tokenization.result.token_categories[i].value_multiplier =
           (IF MatchingRules(i) = {} THEN 1000 ELSE SelectedFactor(i))
    /\ FilmMultipliers

\* C20 (amended): each bucket's value_multiplier is 1.0 when no rule matches
\* its name, and otherwise the one quality factor selected by the first
\* matching rule, which the sound_effects rule of video_games scales by 0.9;
\* it is reported rounded to three decimals.  The film buckets are as stated.
C20_MultiplierIsOneScaledFactor ==
  SpecializedCall =>
    /\ \A i \in 1..Len(tokenization.result.token_categories) :
         LET reported == tokenization.result.token_categories[i].value_multiplier
             scale == IF Resolved = "video_games"
                         /\ Contains("sound_effects", RightsOf(Resolved)[i].name)
                         /\ ~Contains("visual_art", RightsOf(Resolved)[i].name)
                         /\ ~Contains("audio_music", RightsOf(Resolved)[i].name)
                        THEN 9 ELSE 10
         IN IF MatchingRules(i) = {}
              THEN reported = 1000
              ELSE /\ 2 * (10 * reported - SelectedFactor(i) * scale) <= 10
                   /\ 2 * (SelectedFactor(i) * scale - 10 * reported) <= 10
    /\ FilmMultipliers

\* a video_games allocation with six different draws: sound_effects_rights
\* carries 0.9 * audio_production = 0.63, gameplay_mechanics_rights carries
\* gameplay_innovation
C20_Witness ==
  /\ SpecializedCall
  /\ tokenization.category = "video_games"
  /\ tokenization.draws = <<800, 700, 601, 1000, 950, 500>>
  /\ tokenization.result.token_categories[3].value_multiplier = 630
  /\ tokenization.result.token_categories[5].value_multiplier = 1000
  /\ tokenization.result.token_categories[4].value_multiplier = 601

\* C21 as stated: in every bucket of every allocation the reported
\* total_value equals the reported unit_value times the reported token_count.
C21_TotalIsReportedUnitTimesCount ==
  /\ tokenization.called =>
       \A i \in 1..Len(tokenization.result.token_categories) :
          LET bucket == tokenization.result.token_categories[i]
          IN bucket.total_value_usd = bucket.token_value_usd * bucket.token_count
  /\ elements.called =>
       \A i \in 1..Len(elements.result.token_categories) :
          LET bucket == elements.result.token_categories[i]
          IN bucket.total_value_usd = bucket.token_value_usd * bucket.token_count

\* total is x * n / UnitsPerCent rounded to the nearest whole number (either
\* neighbour at a tie); x is split so that no product leaves 32 bits
IsRoundedProduct(total, x, n) ==
  LET whole == x \div UnitsPerCent
      rest == x % UnitsPerCent
      distance == (total - whole * n) * UnitsPerCent - rest * n
  IN /\ 2 * distance <= UnitsPerCent
     /\ -(2 * distance) <= UnitsPerCent

\* C21 (amended): the reported total_value is the unrounded unit value times
\* the token_count, rounded to the nearest cent; it differs from the reported
\* unit_value times token_count by at most (token_count + 1) / 2 cents.
C21_TotalIsRoundedExactProduct ==
  /\ tokenization.called =>
       \A i \in 1..Len(tokenization.result.token_categories) :
          LET bucket == tokenization.result.token_categories[i]
              gap == bucket.total_value_usd - bucket.token_value_usd * bucket.token_count
          IN /\ IsRoundedProduct(bucket.total_value_usd, ExactUnitValue(i),
                                 bucket.token_count)
             /\ 2 * gap <= bucket.token_count + 1
             /\ -(2 * gap) <= bucket.token_count + 1
  /\ elements.called =>
       \A i \in 1..Len(elements.result.token_categories) :
          LET bucket == elements.result.token_categories[i]
              exact == elements_token_categories[i].base_value
                         * OriginalityScore(elements.analysis) * 10000
              gap == bucket.total_value_usd - bucket.token_value_usd * bucket.token_count
          IN /\ IsRoundedProduct(bucket.total_value_usd, exact, bucket.token_count)
             /\ 2 * gap <= bucket.token_count + 1
             /\ -(2 * gap) <= bucket.token_count + 1

\* film, originality_score 90, technical_innovation 0.601: unit value 32.45,
\* 250 tokens, total value round(32.454 * 250) = 8113.50, not 8112.50
C21_Witness ==
  /\ tokenization.called
  /\ tokenization.category = "film"
  /\ tokenization.draws[3] = 601
  /\ tokenization.result.token_categories[1].token_value_usd = 3245
  /\ tokenization.result.token_categories[1].token_count = 250
  /\ tokenization.result.token_categories[1].total_value_usd = 811350

(***************************************************************************)
(* Properties of the classifier                                            *)
(***************************************************************************)
\* the normalized extension and the search text of the recorded call
CallExtension == NormalizeExtension(detection.file_extension)

CallText == TextToAnalyze(detection.filename, detection.content_title)

\* no keyword of any pattern occurs in the filename or the title
NoKeywordInCall ==
  \A i \in 1..Len(keyword_patterns) :
     \A k \in 1..Len(keyword_patterns[i].keywords) :
        ~Contains(keyword_patterns[i].keywords[k], CallText)

\* the patterns, and the table categories, that list the call's extension
PatternsListingExtension ==
  {i \in 1..Len(keyword_patterns) : InList(CallExtension, keyword_patterns[i].file_types)}

CategoriesListingExtension ==
  {i \in 1..Len(CONTENT_CATEGORIES) : InList(CallExtension, CONTENT_CATEGORIES[i].file_types)}

First(S) == CHOOSE i \in S : \A j \in S : i <= j

\* the largest score of the result
MaxScore(all_scores) ==
  CHOOSE m \in {all_scores[i].score : i \in 1..Len(all_scores)} :
     \A i \in 1..Len(all_scores) : all_scores[i].score <= m

\* C4: the confidence of every classifier result lies in [0, 0.98].
C4_ConfidenceRange ==
  detection.called =>
    /\ detection.result.confidence >= 0
    /\ detection.result.confidence <= 980

\* a keyword-analysis result whose score 1.0 is reported at the cap 0.98
C4_Witness ==
  /\ detection.called
  /\ detection.result.method = "enhanced_keyword_analysis"
  /\ MaxScore(detection.result.all_scores) = 1000
  /\ detection.result.confidence = 980

\* C5 as stated: the category of every classifier result is one of the ten ids
\* of the category table, and its method is one of keyword_analysis,
\* file_extension_fallback, default_fallback.
C5_CategoryAndMethodInTable ==
  detection.called =>
    /\ detection.result.category \in
         {"film", "animation", "screenplay", "book_writing", "digital_art",
          "photography", "music_composition", "podcast_audio", "software_code",
          "video_games"}
    /\ detection.result.method \in
         {"keyword_analysis", "file_extension_fallback", "default_fallback"}

\* C6 as stated: with no keyword in the filename and title, every category
\* whose file_types contain the extension is the category returned, with a
\* score of at least 0.4.
C6_EveryListingCategoryWins ==
  (detection.called /\ NoKeywordInCall) =>
    \A i \in CategoriesListingExtension :
       /\ detection.result.category = CONTENT_CATEGORIES[i].id
       /\ \E j \in 1..Len(detection.result.all_scores) :
             /\ detection.result.all_scores[j].id = CONTENT_CATEGORIES[i].id
             /\ detection.result.all_scores[j].score >= 400

\* C6 (amended): with no keyword in the filename and title, every keyword
\* pattern whose file-type list contains the extension scores exactly 0.4, from
\* the extension match alone, every other pattern scores 0, and the result is
\* the first such pattern in table order, with confidence 0.45; when no
\* pattern lists the extension the result is the first category of the
\* category table whose file_types contain it, through the extension fallback.
C6_FirstListingCategoryWins ==
  (detection.called /\ NoKeywordInCall) =>
    /\ \A i \in 1..Len(keyword_patterns) :
         detection.result.all_scores[i].score =
           IF i \in PatternsListingExtension THEN 400 ELSE 0
    /\ PatternsListingExtension # {} =>
         /\ detection.result.category =
              keyword_patterns[First(PatternsListingExtension)].id
         /\ detection.result.confidence = 450
         /\ detection.result.method = "enhanced_keyword_analysis"
    /\ (PatternsListingExtension = {} /\ CategoriesListingExtension # {}) =>
         /\ detection.result.category =
              CONTENT_CATEGORIES[First(CategoriesListingExtension)].id
         /\ detection.result.method = "file_extension_fallback"

\* no keyword, extension mp4, which three categories and two patterns list:
\* the result is film, the first pattern
C6_Witness ==
  /\ detection.called
  /\ NoKeywordInCall
  /\ CallExtension = "mp4"
  /\ Cardinality(PatternsListingExtension) = 2
  /\ Cardinality(CategoriesListingExtension) = 3
  /\ detection.result.category = "film"

\* C7 as stated: an input with no keyword whose extension is in no category's
\* extension set yields digital_art with confidence 0.75 and method
\* default_fallback.
C7_UnknownInputIsDefaultFallback ==
  (detection.called /\ NoKeywordInCall /\ CategoriesListingExtension = {}) =>
    /\ detection.result.category = "digital_art"
    /\ detection.result.confidence = 750
    /\ detection.result.method = "default_fallback"

\* C7 (amended): an input with no keyword whose extension is in no category's
\* file_types and in no keyword pattern's file-type list yields digital_art
\* with confidence 0.85 and method file_extension_fallback; no input reaches
\* the default_fallback result.
C7_UnknownInputIsExtensionFallback ==
  detection.called =>
    /\ detection.result.method # "default_fallback"
    /\ (NoKeywordInCall /\ CategoriesListingExtension = {}
          /\ PatternsListingExtension = {}) =>
         /\ detection.result.category = "digital_art"
         /\ detection.result.confidence = 850
         /\ detection.result.method = "file_extension_fallback"
         /\ detection.result.detected_keywords = <<>>

\* the scenario clip.xyz with an empty title
C7_Witness ==
  /\ detection.called
  /\ detection.filename = "clip.xyz"
  /\ detection.file_extension = "xyz"
  /\ detection.content_title = ""
  /\ NoKeywordInCall
  /\ detection.result.category = "digital_art"

\* the result for the screenplay scenario of the specification
ScreenplayScenario ==
  /\ detection.filename = "my_screenplay_draft.pdf"
  /\ detection.file_extension = "pdf"
  /\ detection.content_title = "Act One Dialogue"

\* the score the result reports for the category it returns is the largest
ReturnsMaxScoring ==
  \E j \in 1..Len(detection.result.all_scores) :
     /\ detection.result.all_scores[j].id = detection.result.category
     /\ detection.result.all_scores[j].score = MaxScore(detection.result.all_scores)

C17_LowScoreIsExtensionLookup ==
  (detection.called /\ MaxScore(detection.result.all_scores) < 300) =>
    /\ detection.result.category =
         (IF CategoriesListingExtension # {}
            THEN CONTENT_CATEGORIES[First(CategoriesListingExtension)].id
            ELSE "digital_art")
    /\ detection.result.confidence = 850
    /\ detection.result.method = "file_extension_fallback"
    /\ detection.result.detected_keywords = <<>>

\* a keyword matched, but its penalized score stays below 0.3, and the
\* extension is one only the category table lists: the table decides
C17_Witness ==
  /\ detection.called
  /\ ~NoKeywordInCall
  /\ MaxScore(detection.result.all_scores) > 0
  /\ MaxScore(detection.result.all_scores) < 300
  /\ CategoriesListingExtension # {}
  /\ detection.result.category # "digital_art"
  /\ detection.result.method = "file_extension_fallback"

\* the keywords of pattern i found in the search text of the recorded call
KeywordsFound(i) ==
  {k \in 1..Len(keyword_patterns[i].keywords) :
     Contains(keyword_patterns[i].keywords[k], CallText)}

\* sum of 0.1 + 0.01 * length over the keywords at the positions in found
RECURSIVE WeightSum(_, _)
WeightSum(keywords, found) ==
  IF found = {}
    THEN 0
    ELSE LET k == CHOOSE j \in found : TRUE
         IN 100 + 10 * Len(keywords[k]) + WeightSum(keywords, found \ {k})

\* the score pattern i has accumulated before penalty and clamp
Accumulated(i) ==
  (IF i \in PatternsListingExtension THEN 400 ELSE 0)
    + WeightSum(keyword_patterns[i].keywords, KeywordsFound(i))
    + (IF KeywordsFound(i) # {}
         THEN keyword_patterns[i].confidence_boost
                + Min(50 * Cardinality(KeywordsFound(i)), 200)
         ELSE 0)

\* C18: every category's score lies in [0,1]; when the extension is in the
\* category's extension set the score is min(1, 0.4 + sum over the matched
\* keywords of (0.1 + 0.01 * length) + [confidence_boost + min(0.05 * matches,
\* 0.2) if a keyword matched]); a category with no extension match and no
\* matched keyword scores exactly 0.
C18_ScoreFormula ==
  detection.called =>
    \A i \in 1..Len(keyword_patterns) :
       LET entry == detection.result.all_scores[i]
       IN /\ entry.id = keyword_patterns[i].id
          /\ entry.score >= 0
          /\ entry.score <= 1000
          /\ i \in PatternsListingExtension =>
               entry.score = Min(1000, Accumulated(i))
          /\ (i \notin PatternsListingExtension /\ KeywordsFound(i) = {}) =>
               entry.score = 0

\* manuscript with extension pdf: book_writing lists pdf and matches one
\* keyword, and its score 0.81 stays under the clamp
C18_Witness ==
  /\ detection.called
  /\ detection.filename = "manuscript"
  /\ detection.file_extension = "pdf"
  /\ detection.content_title = ""
  /\ \E i \in PatternsListingExtension :
        /\ keyword_patterns[i].id = "book_writing"
        /\ Cardinality(KeywordsFound(i)) = 1
        /\ detection.result.all_scores[i].score = 810

\* the extension of the recorded call strongly contradicts pattern i
Contradictory(i) ==
  \/ /\ CallExtension \in {"mp4", "mov", "avi", "mkv", "wmv"}
     /\ keyword_patterns[i].id \in {"screenplay", "book_writing"}
  \/ /\ CallExtension \in {"pdf", "txt", "doc", "docx"}
     /\ keyword_patterns[i].id \in {"film", "music", "animation"}
  \/ /\ CallExtension \in {"mp3", "wav", "flac", "aac"}
     /\ keyword_patterns[i].id \in {"film", "digital_art", "photography"}

\* C19: a category with a matched keyword whose extension set does not
\* contain the extension has its accumulated score multiplied by 0.3 when the
\* extension belongs to a strongly contradictory media class for it (a video
\* extension for screenplay or book_writing, a text extension for film, music
\* or animation, an audio extension for film, digital_art or photography) and
\* by 0.7 otherwise; a category whose extension set contains the extension is
\* never penalized.
C19_ContradictionPenalty ==
  detection.called =>
    \A i \in 1..Len(keyword_patterns) :
       LET score == detection.result.all_scores[i].score
       IN IF KeywordsFound(i) # {} /\ i \notin PatternsListingExtension
            THEN IF Contradictory(i)
                   THEN 10 * score = Min(10000, 3 * Accumulated(i))
                   ELSE 10 * score = Min(10000, 7 * Accumulated(i))
            ELSE score = Min(1000, Accumulated(i))

\* a screenplay filename uploaded as a video: screenplay is penalized
\* heavily, a pattern matched with a merely unlisted extension mildly
C19_Witness ==
  /\ detection.called
  /\ CallExtension = "mp4"
  /\ detection.filename = "my_screenplay_draft.pdf"
  /\ \E i \in 1..Len(keyword_patterns) :
        /\ keyword_patterns[i].id = "screenplay"
        /\ KeywordsFound(i) # {}
        /\ Contradictory(i)
        /\ 10 * detection.result.all_scores[i].score = 3 * Accumulated(i)
  /\ detection.result.category # "screenplay"

\* C22: extension normalization (lower case, leading dots stripped) is
\* idempotent and preserves results: classifying with extension e gives what
\* classifying with norm(e) gives, and likewise for
\* get_category_by_file_extension and validate_category_selection; ".PDF"
\* gives what "pdf" gives.
C22_NormalizationPreservesResults ==
  /\ detection.called =>
       /\ NormalizeExtension(NormalizeExtension(detection.file_extension))
            = NormalizeExtension(detection.file_extension)
       /\ detection.result \in
            ComputedDetection(
              enhanced_auto_detect_category(
                detection.filename, NormalizeExtension(detection.file_extension),
                detection.content_title))
       /\ detection.file_extension = ".PDF" =>
            detection.result \in
              ComputedDetection(
                enhanced_auto_detect_category(detection.filename, "pdf",
                                              detection.content_title))
  /\ (lookup.called /\ lookup.function = "get_category_by_file_extension") =>
       /\ lookup.category
            = get_category_by_file_extension(NormalizeExtension(lookup.file_extension))
       /\ lookup.file_extension = ".PDF" =>
            lookup.category = get_category_by_file_extension("pdf")
  /\ (lookup.called /\ lookup.function = "validate_category_selection") =>
       /\ lookup.valid
            = validate_category_selection(lookup.category_id,
                                          NormalizeExtension(lookup.file_extension))
       /\ lookup.file_extension = ".PDF" =>
            lookup.valid = validate_category_selection(lookup.category_id, "pdf")

\* a classification with the extension written "..Mp3": two dots and an
\* upper-case letter are removed before the tables are consulted
C22_Witness ==
  /\ detection.called
  /\ detection.file_extension = "..Mp3"
  /\ detection.result.category = "music"
  /\ detection.result.method = "enhanced_keyword_analysis"

(***************************************************************************)
(* Properties of overlapping calls                                         *)
(***************************************************************************)
\* thread t has a classifier, or an allocator, call that has returned
ReturnedDetection(t) ==
  calls[t].state = "returned" /\ calls[t].function = "enhanced_auto_detect_category"

ReturnedAllocation(t) ==
  calls[t].state = "returned" /\ calls[t].function = "create_specialized_tokenization"

SameDetectionInput(t, u) ==
  /\ calls[t].filename = calls[u].filename
  /\ calls[t].file_extension = calls[u].file_extension
  /\ calls[t].content_title = calls[u].content_title

C25_ExtensionOnlyIsFirstPattern ==
  (detection.called /\ PatternsListingExtension # {}) =>
    /\ detection.result.method = "enhanced_keyword_analysis"
    /\ NoKeywordInCall =>
         /\ detection.result.category =
              keyword_patterns[First(PatternsListingExtension)].id
         /\ detection.result.confidence = 450
         /\ detection.result.detected_keywords = <<>>
         /\ CallExtension = "mp4" => detection.result.category = "film"
         /\ CallExtension = "pdf" => detection.result.category = "screenplay"

\* no keyword, extension ".PDF", which the patterns screenplay and book_writing
\* list: the result is screenplay, the earlier of the two
C25_Witness ==
  /\ detection.called
  /\ NoKeywordInCall
  /\ detection.file_extension = ".PDF"
  /\ Cardinality(PatternsListingExtension) > 1
  /\ detection.result.category = "screenplay"
  /\ detection.result.confidence = 450
  /\ detection.result.detected_keywords = <<>>

\* position of a category id in the category table
TablePosition(category_id) ==
  CHOOSE i \in 1..Len(CONTENT_CATEGORIES) : CONTENT_CATEGORIES[i].id = category_id

\* C26: no input makes the classifier return podcast_audio or
\* music_composition, and no extension makes get_category_by_file_extension
\* return podcast_audio: every podcast_audio extension also belongs to
\* music_composition, which precedes it in the table, and every audio
\* extension of the table is claimed by the keyword pattern "music" before the
\* extension fallback can run.
C26_AudioCategoriesNeverDetected ==
  /\ detection.called =>
       /\ detection.result.category \notin {"podcast_audio", "music_composition"}
       /\ CallExtension \in Range(CategoryById("music_composition").file_types)
                           \cup Range(CategoryById("podcast_audio").file_types) =>
            /\ InList(CallExtension, PatternById("music").file_types)
            /\ detection.result.method = "enhanced_keyword_analysis"
  /\ (lookup.called /\ lookup.function = "get_category_by_file_extension") =>
       /\ lookup.category # "podcast_audio"
       /\ InList(NormalizeExtension(lookup.file_extension),
                 CategoryById("podcast_audio").file_types) =>
            /\ InList(NormalizeExtension(lookup.file_extension),
                      CategoryById("music_composition").file_types)
            /\ TablePosition("music_composition") < TablePosition("podcast_audio")
            /\ lookup.category = "music_composition"

\* the lookup of "m4a", an extension both audio categories list: the answer
\* is music_composition
C26_Witness ==
  /\ lookup.called
  /\ lookup.function = "get_category_by_file_extension"
  /\ lookup.file_extension = "m4a"
  /\ InList("m4a", CategoryById("podcast_audio").file_types)
  /\ lookup.category = "music_composition"

(***************************************************************************)
(* Properties of the token budget                                          *)
(***************************************************************************)
RECURSIVE SumPercentages(_)
SumPercentages(rights) ==
  IF rights = <<>> THEN 0
  ELSE Head(rights).percentage + SumPercentages(Tail(rights))

\* C24: for each of the ten known categories the token counts of the
\* allocation sum to exactly 1000: the percentages of its rights structure
\* sum to 100 and 1000 * percentage / 100 is a whole number for each bucket;
\* the same holds for the five buckets of the earlier tokenizer.
C24_KnownCategoriesUseWholeBudget ==
  /\ Len(CONTENT_CATEGORIES) = 10
  /\ (tokenization.called /\ Resolved \in CategoryIds) =>
       LET rights == CategoryById(Resolved).tokenization_structure
           buckets == tokenization.result.token_categories
       IN /\ SumPercentages(rights) = 100
          /\ \A i \in 1..Len(rights) : (1000 * rights[i].percentage) % 100 = 0
          /\ Len(buckets) = Len(rights)
          /\ \A i \in 1..Len(rights) :
               buckets[i].token_count * 100 = 1000 * rights[i].percentage
          /\ SumTokenCounts(buckets) = 1000
          /\ tokenization.result.total_tokens = 1000
  /\ elements.called =>
       /\ Len(elements.result.token_categories) = 5
       /\ SumPercentages(elements_token_categories) = 100
       /\ \A i \in 1..5 :
            elements.result.token_categories[i].token_count * 100
              = 1000 * elements_token_categories[i].percentage
       /\ SumTokenCounts(elements.result.token_categories) = 1000

\* an allocation for the last category of the table, whose buckets hold
\* the whole budget
C24_Witness ==
  /\ tokenization.called
  /\ tokenization.category = CONTENT_CATEGORIES[10].id
  /\ SumTokenCounts(tokenization.result.token_categories) = 1000
  /\ Len(tokenization.result.token_categories) > 1

\* C27: for a category id outside the category table (the classifier's own
\* ids "music", "gaming", "software" included) the allocation holds exactly
\* the four digital_art buckets, with digital_art's percentages and base
\* values and value_multiplier 1.0 on each, not digital_art's quality
\* factors, and the result's content_category is the unrecognized id itself.
C27_UnknownCategoryKeepsItsId ==
  (tokenization.called /\ Resolved \notin CategoryIds) =>
    LET rights == CategoryById("digital_art").tokenization_structure
        buckets == tokenization.result.token_categories
        score == OriginalityScore(tokenization.analysis)
    IN /\ Len(rights) = 4
       /\ Len(buckets) = 4
       /\ \A i \in 1..4 :
            /\ buckets[i].name = rights[i].name
            /\ buckets[i].token_count * 100 = 1000 * rights[i].percentage
            /\ buckets[i].value_multiplier = 1000
            /\ buckets[i].token_value_usd \in
                 RoundNearest(rights[i].base_value * score * UnitMultiplier, UnitsPerCent)
       /\ tokenization.draws = <<>>
       /\ tokenization.result.category_analysis.generic
       /\ tokenization.result.category_analysis.factor_scores = <<>>
       /\ tokenization.result.content_category = tokenization.category
       /\ tokenization.result.content_category # "digital_art"

\* an allocation for the classifier's id "music": digital_art's buckets under
\* the name music
C27_Witness ==
  /\ tokenization.called
  /\ tokenization.category = "music"
  /\ tokenization.result.content_category = "music"
  /\ Len(tokenization.result.token_categories) = 4
  /\ tokenization.result.token_categories[1].name
       = CategoryById("digital_art").tokenization_structure[1].name
  /\ tokenization.result.token_categories[1].value_multiplier = 1000
  /\ tokenization.result.total_value_usd > 0

(***************************************************************************)
(* Properties of the /tokenize route                                       *)
(***************************************************************************)
InTrace(step) == \E k \in 1..Len(flow.trace) : flow.trace[k] = step

NeitherCategoryNorExtension ==
  /\ flow.pc # "idle"
  /\ ~flow.data.empty
  /\ ~Falsy(flow.data.content_id)
  /\ Falsy(flow.data.category)
  /\ flow.data.file_extension = None

\* C28: a v1.1 /tokenize request that has a content_id but neither category
\* nor file_extension ends in an error response (success = false, status 500)
\* and no allocation or wallet metadata is produced, although
\* create_specialized_tokenization called directly with neither falls back to
\* digital_art and succeeds.
C28_NeitherCategoryNorExtensionFails ==
  NeitherCategoryNorExtension =>
    /\ flow.pc \in {"received", "detect", "responded"}
    /\ ~InTrace("create_specialized_tokenization")
    /\ ~InTrace("create_wallet_integration")
    /\ flow.pc = "responded" =>
         /\ ~flow.response.success
         /\ flow.response.status = 500
         /\ \A draws \in ExtremeDraws(FactorsOf(ResolveCategory(None, None))) :
              LET direct == create_specialized_tokenization(
                              flow.data.content_id, flow.data.analysis, None, None, draws)
              IN /\ direct # {}
                 /\ \A result \in direct :
                      /\ result.content_category = "digital_art"
                      /\ result.total_tokens = 1000
                      /\ Len(result.token_categories) = 4

\* the request {"content_id": "id1"} has been answered with status 500
C28_Witness ==
  /\ NeitherCategoryNorExtension
  /\ flow.pc = "responded"
  /\ flow.data.content_id = "id1"
  /\ flow.data.category = None
  /\ flow.response.status = 500
  /\ flow.response.error = NoneHasNoLower
  /\ flow.trace = <<"get_category_by_file_extension">>

(***************************************************************************)
(* Properties of the registration routes                                   *)
(***************************************************************************)
\* thread t answers a request of the given kind in this step
Answers(t, kind) ==
  /\ requests[t].pc # "done"
  /\ requests'[t].pc = "done"
  /\ requests'[t].kind = kind

\* the token is in the table, unused, and not past its expiry
Acceptable(token) ==
  /\ TokenTaken(token)
  /\ ~email_verifications[VerificationOf(token)].used
  /\ clock <= email_verifications[VerificationOf(token)].expires_at

\* C29: while register, resend-verification and verify-email requests are
\* served one after another, a verification token is accepted at most once:
\* a token is accepted only while its record is unused, acceptance marks the
\* record used and the user verified, and no record is ever removed or marked
\* unused again, so every later verification with the token is rejected and
\* changes nothing; an unknown or expired token is rejected without changing
\* any row; a user's email_verified, once true, never becomes false.
C29_TokenAcceptedAtMostOnce ==
  [][/\ Len(email_verifications') >= Len(email_verifications)
     /\ \A k \in 1..Len(email_verifications) :
          /\ email_verifications'[k].token = email_verifications[k].token
          /\ email_verifications'[k].user_id = email_verifications[k].user_id
          /\ email_verifications'[k].expires_at = email_verifications[k].expires_at
          /\ email_verifications[k].used => email_verifications'[k].used
     /\ Len(users') >= Len(users)
     /\ \A k \in 1..Len(users) :
          /\ users'[k].id = users[k].id
          /\ users[k].email_verified => users'[k].email_verified
     /\ \A t \in Threads :
          Answers(t, "verify") =>
            IF Acceptable(requests'[t].token)
              THEN LET v == VerificationOf(requests'[t].token) IN
                   /\ requests'[t].status = 200
                   /\ email_verifications'[v].used
                   /\ users'[UserWithId(email_verifications[v].user_id)].email_verified
              ELSE /\ requests'[t].status = 400
                   /\ users' = users
                   /\ email_verifications' = email_verifications
    ]_vars

\* a second verification with a token that was accepted before: it is
\* rejected, and the user stays verified
C29_Witness ==
  /\ requests[FirstThread].pc = "done"
  /\ requests[FirstThread].kind = "verify"
  /\ requests[FirstThread].status = 400
  /\ requests[FirstThread].error = "Verification token has already been used"
  /\ TokenTaken(requests[FirstThread].token)
  /\ email_verifications[VerificationOf(requests[FirstThread].token)].used
  /\ users[UserWithId(email_verifications[VerificationOf(requests[FirstThread].token)].user_id)]
       .email_verified

\* no two rows of users share an id, a username or an email
UsersAreUnique ==
  \A j, k \in 1..Len(users) :
     j # k => /\ users[j].id # users[k].id
              /\ users[j].username # users[k].username
              /\ users[j].email # users[k].email

\* every row of users has the verification record written with it
UsersHaveVerification ==
  \A k \in 1..Len(users) :
     \E v \in 1..Len(email_verifications) :
        /\ email_verifications[v].user_id = users[k].id
        /\ email_verifications[v].token = users[k].verification_token

\* C30: after any interleaving of concurrent register requests no two stored
\* users share a username or an email; a request that loses gets an error
\* response and leaves no user row and no verification record; every stored
\* user has a verification record, created in the same commit.
C30_ConcurrentRegistrationKeepsUsersUnique ==
  /\ [](UsersAreUnique /\ UsersHaveVerification)
  /\ [][/\ \A t \in Threads :
            (Answers(t, "register") /\ requests'[t].status # 201) =>
              /\ requests'[t].status \in {400, 409, 500}
              /\ requests'[t].error # None
              /\ users' = users
              /\ email_verifications' = email_verifications
        /\ (users' # users \/ email_verifications' # email_verifications) =>
             \E t \in Threads :
                /\ Answers(t, "register")
                /\ requests'[t].status = 201
                /\ Len(users') = Len(users) + 1
                /\ SubSeq(users', 1, Len(users)) = users
                /\ users'[Len(users')].username = requests'[t].username
                /\ users'[Len(users')].email = requests'[t].email
                /\ Len(email_verifications') = Len(email_verifications) + 1
                /\ SubSeq(email_verifications', 1, Len(email_verifications))
                     = email_verifications
                /\ email_verifications'[Len(email_verifications')].user_id
                     = users'[Len(users')].id
       ]_vars

\* two requests for the same username both passed the SELECT; one was
\* answered 201 and the other failed at its INSERT and left nothing
C30_Witness ==
  \E t, u \in Threads :
     /\ t # u
     /\ requests[t].pc = "done" /\ requests[t].kind = "register"
     /\ requests[u].pc = "done" /\ requests[u].kind = "register"
     /\ requests[t].status = 201
     /\ requests[u].status = 500
     /\ requests[u].error = "Registration failed: UNIQUE constraint failed"
     /\ requests[t].username = requests[u].username
     /\ Len(users) = 1
     /\ Len(email_verifications) = 1

====
